---- MODULE Spec2Model ----
(***************************************************************************)
(* A model of sharedfileholder: the directory lock of a vault              *)
(* (src/vault/lock.rs), the Vault that owns it (src/vault.rs) and the      *)
(* backup command (src/main.rs with src/database.rs, src/storage.rs and    *)
(* their later revisions under src/vault/).                                *)
(***************************************************************************)
EXTENDS Integers, Sequences, FiniteSets, TLC

\* Number of operating-system processes working on the same vault directory.
NumProcs == 2

Procs == 1..NumProcs

VARIABLES
    lockFile,   \* TRUE iff <vault_dir>/lock exists on disk
    held,       \* processes that returned success from a lock call and have not unlocked since
    pc,         \* per process: its position in the code
    cmd,        \* per process: what it is running ("none", "lock" for direct use of DirectoryLock, "list")
    res,        \* per process: result of its last lock call
    blocked,    \* per process: its current blocking_lock call has seen AlreadyLocked
    watch,      \* per process: its inotify instance watches the lock file (DELETE_SELF)
    event,      \* per process: a DELETE_SELF event is queued on its inotify instance
    last,       \* the direct call of a function made by the last step, if any
    seen,       \* what the walk made by the last step, if any, was given
    rev,        \* the revision of the database and storage modules in use ("flat" or "vault")
    dbDisk,     \* the database document on disk
    store,      \* the content store: hash -> what the file at the hash-derived path holds
    bk,         \* per process: the local state of its backup command
    err,        \* per process: why its last command failed
    started,    \* number of commands started so far
    taken,      \* per snapshot name: the source tree its last committed backup walked
    fm          \* a FieldMap2 of src/fieldmap.rs, used by direct calls only

lockVars == <<lockFile, held, res, blocked, watch, event, last>>
\* What no command touches: the revision in use, and the objects of the
\* direct calls.
apart == <<rev, fm>>
dataVars == <<apart, dbDisk, store, bk, err, started, taken>>
vars == <<lockFile, held, pc, cmd, res, blocked, watch, event, last, seen,
          rev, dbDisk, store, bk, err, started, taken, fm>>

NoCall == [op |-> "none", proc |-> 0, existed |-> FALSE, fault |-> FALSE, held |-> {}]

NoWalk == [proc |-> 0, special |-> FALSE, files |-> 0]

\* A step that is neither a direct call of a function nor a walk.
Quiet == last' = NoCall /\ seen' = NoWalk

IoErrors == {"EACCES", "ENOENT", "EMFILE"}

----------------------------------------------------------------------------
(* src/vault/lock.rs *)

\* A fault of CreateNew: create(true) in place of create_new(true), which opens
\* an existing file.
CreateNewNoExcl(exists, fault) ==
    IF fault THEN "EACCES" ELSE "Created"

\* OpenOptions::new().write(true).create_new(true).open(path): O_CREAT|O_EXCL.
\* `fault` is an error of the environment other than "already exists".
CreateNew(exists, fault) ==
    IF fault THEN "EACCES"
    ELSE IF exists THEN "EEXIST"
    ELSE "Created"

\* A fault of NonblockingLockResult: the AlreadyExists arm is missing, and the
\* error is returned as any other.
NonblockingLockResultNoGuard(exists, fault) ==
    LET r == CreateNew(exists, fault)
    IN  IF r = "Created" THEN "Ok" ELSE r

\* DirectoryLock::nonblocking_lock: the result for the caller.
NonblockingLockResult(exists, fault) ==
    LET r == CreateNew(exists, fault)
    IN  CASE r = "Created" -> "Ok"
          [] r = "EEXIST"  -> "AlreadyLocked"
          [] OTHER         -> r

\* Where a process continues when its blocking_lock call returns.
AfterBlockingLock(p) == IF cmd[p] = "list" THEN "od_load" ELSE "idle"

\* Dropping the Inotify instance closes its watch and discards its events.
DropInotify(p) ==
    /\ watch' = [watch EXCEPT ![p] = FALSE]
    /\ event' = [event EXCEPT ![p] = FALSE]

\* A direct call of DirectoryLock::nonblocking_lock (one system call).
NonblockingLock(p) ==
    /\ pc[p] = "idle"
    /\ cmd[p] \in {"none", "lock"}
    /\ \E fault \in BOOLEAN :
        LET r == NonblockingLockResult(lockFile, fault)
        IN  /\ res' = [res EXCEPT ![p] = r]
            /\ lockFile' = (lockFile \/ r = "Ok")
            /\ held' = IF r = "Ok" THEN held \cup {p} ELSE held
            /\ last' = [op |-> "nonblocking_lock", proc |-> p,
                        existed |-> lockFile, fault |-> fault, held |-> held]
    /\ seen' = NoWalk
    /\ cmd' = [cmd EXCEPT ![p] = "lock"]
    /\ blocked' = [blocked EXCEPT ![p] = FALSE]
    /\ UNCHANGED <<pc, watch, event, dataVars>>

\* A direct call of DirectoryLock::blocking_lock: entry into the loop.
BlockingLockCall(p) ==
    /\ pc[p] = "idle"
    /\ cmd[p] \in {"none", "lock"}
    /\ p \notin held
    /\ pc' = [pc EXCEPT ![p] = "bl_try"]
    /\ cmd' = [cmd EXCEPT ![p] = "lock"]
    /\ res' = [res EXCEPT ![p] = "none"]
    /\ blocked' = [blocked EXCEPT ![p] = FALSE]
    /\ Quiet
    /\ UNCHANGED <<lockFile, held, watch, event, dataVars>>

\* blocking_lock, line 35: self.nonblocking_lock() and the match on its result.
BlTry(p) ==
    /\ pc[p] = "bl_try"
    /\ \E fault \in BOOLEAN :
        LET r == NonblockingLockResult(lockFile, fault)
        IN  /\ lockFile' = (lockFile \/ r = "Ok")
            /\ held' = IF r = "Ok" THEN held \cup {p} ELSE held
            /\ IF r = "AlreadyLocked"
               THEN /\ pc' = [pc EXCEPT ![p] = "bl_watch"]
                    /\ blocked' = [blocked EXCEPT ![p] = TRUE]
                    /\ UNCHANGED res
               ELSE /\ pc' = [pc EXCEPT ![p] = AfterBlockingLock(p)]
                    /\ res' = [res EXCEPT ![p] = r]
                    /\ UNCHANGED blocked
    /\ Quiet
    /\ UNCHANGED <<cmd, watch, event, dataVars>>

\* blocking_lock, lines 39-40: Inotify::init()? and watches().add(path, DELETE_SELF)?.
\* inotify_add_watch on a path that does not exist fails with ENOENT.
BlWatch(p) ==
    /\ pc[p] = "bl_watch"
    /\ \E initFault \in BOOLEAN :
        IF initFault \/ ~lockFile
        THEN /\ res' = [res EXCEPT ![p] = IF initFault THEN "EMFILE" ELSE "ENOENT"]
             /\ pc' = [pc EXCEPT ![p] = AfterBlockingLock(p)]
             /\ UNCHANGED watch
        ELSE /\ watch' = [watch EXCEPT ![p] = TRUE]
             /\ pc' = [pc EXCEPT ![p] = "bl_bufsize"]
             /\ UNCHANGED res
    /\ Quiet
    /\ UNCHANGED <<lockFile, held, cmd, blocked, event, dataVars>>

\* blocking_lock, line 41: inotify::get_buffer_size(path)? resolves the path.
BlBufSize(p) ==
    /\ pc[p] = "bl_bufsize"
    /\ IF ~lockFile
       THEN /\ res' = [res EXCEPT ![p] = "ENOENT"]
            /\ pc' = [pc EXCEPT ![p] = AfterBlockingLock(p)]
            /\ DropInotify(p)
       ELSE /\ pc' = [pc EXCEPT ![p] = "bl_read"]
            /\ UNCHANGED <<res, watch, event>>
    /\ Quiet
    /\ UNCHANGED <<lockFile, held, cmd, blocked, dataVars>>

\* A fault of BlRead: the deletion event is taken for the lock itself, and the
\* call returns Ok without a new attempt.
BlReadAssumesOwnership(p) ==
    /\ pc[p] = "bl_read"
    /\ event[p]
    /\ DropInotify(p)
    /\ held' = held \cup {p}
    /\ res' = [res EXCEPT ![p] = "Ok"]
    /\ pc' = [pc EXCEPT ![p] = AfterBlockingLock(p)]
    /\ Quiet
    /\ UNCHANGED <<lockFile, cmd, blocked, dataVars>>

\* blocking_lock, lines 42-43: read_events_blocking returns once an event is
\* queued; the loop continues with a new attempt.
BlRead(p) ==
    /\ pc[p] = "bl_read"
    /\ event[p]
    /\ DropInotify(p)
    /\ pc' = [pc EXCEPT ![p] = "bl_try"]
    /\ Quiet
    /\ UNCHANGED <<lockFile, held, cmd, res, blocked, dataVars>>

\* fs::remove_file(path): the file is unlinked and every watcher of it is told.
RemoveLockFile(exists, fault) ==
    IF fault THEN "EACCES"
    ELSE IF ~exists THEN "ENOENT"
    ELSE "Removed"

\* The effect of DirectoryLock::unlock by process p on the lock's state.
UnlockEffect(p, fault) ==
    LET r == RemoveLockFile(lockFile, fault)
    IN  /\ lockFile' = (lockFile /\ r # "Removed")
        /\ held' = IF r = "Removed" THEN held \ {p} ELSE held
        /\ event' = IF r = "Removed"
                    THEN [q \in Procs |-> event[q] \/ watch[q]]
                    ELSE event

\* A direct call of DirectoryLock::unlock by the holder.
Unlock(p) ==
    /\ pc[p] = "idle"
    /\ cmd[p] = "lock"
    /\ p \in held
    /\ \E fault \in BOOLEAN : UnlockEffect(p, fault)
    /\ Quiet
    /\ UNCHANGED <<pc, cmd, res, blocked, watch, dataVars>>

----------------------------------------------------------------------------
(* The data of a vault and of a source tree *)

\* Largest modification time of a source file.
MaxMTime == 2
\* Number of commands the processes start in one run.
MaxCmds == 2

Revs == {"flat", "vault"}
Names == {"s1", "s2"}
PathSeq == <<"a", "b", "c">>
Paths == {PathSeq[i] : i \in 1..Len(PathSeq)}
Inos == {1, 2}
Contents == {"x", "y"}

\* blake3 of a file's bytes: distinct contents have distinct hashes.
Blake3(content) == IF content = "x" THEN "hx" ELSE "hy"
Hashes == {Blake3(c) : c \in Contents}
\* metadata.len() of a file with the given bytes.
SizeOf(content) == IF content = "x" THEN 1 ELSE 2

Absent == [kind |-> "absent", ino |-> 0, mtime |-> 0, content |-> ""]
DirectoryEntry == [kind |-> "dir", ino |-> 0, mtime |-> 0, content |-> ""]
SymlinkEntry == [kind |-> "symlink", ino |-> 0, mtime |-> 0, content |-> "a"]
SpecialEntry == [kind |-> "special", ino |-> 0, mtime |-> 0, content |-> ""]
FileEntries == [kind : {"file"}, ino : Inos, mtime : 1..MaxMTime, content : Contents]
Entries == FileEntries \cup {Absent, DirectoryEntry, SymlinkEntry, SpecialEntry}

\* The source trees a backup may find: anything in the first two places, and
\* possibly a special file in the last.
Trees == {t \in [Paths -> Entries] : t["c"] \in {Absent, SpecialEntry}}

\* The source trees of the runs in which commands overlap: a file that is
\* rewritten, a second file of the same bytes, a special file.
File(ino, mtime, content) == [kind |-> "file", ino |-> ino, mtime |-> mtime, content |-> content]
SmallTrees ==
    {t \in Trees : /\ t["a"] \in {Absent, File(1, 1, "x"), File(1, MaxMTime, "y")}
                   /\ t["b"] \in {Absent, File(2, 1, "x")}}

\* Number of commands of a run in which one source tree is backed up again.
MaxReruns == 3
\* The sizes a new file may be queued with, and the new files of a builder
\* given to insert_backup_builder directly.
MaxSize == 2
MaxNewFiles == 2

\* The source trees of those runs: one file, as first written, touched, put back
\* to its first time or rewritten; beside it nothing, a directory or a symlink.
RerunTrees ==
    {t \in Trees : /\ t["a"] \in {File(1, 1, "x"), File(1, MaxMTime, "x"), File(1, MaxMTime, "y")}
                   /\ t["b"] \in {Absent, DirectoryEntry, SymlinkEntry}
                   /\ t["c"] = Absent}

\* Finite maps are functions; Put is insert-or-replace, as BTreeMap::insert.
EmptyMap == << >>
Put(f, k, v) == [x \in DOMAIN f \cup {k} |-> IF x = k THEN v ELSE f[x]]

\* Backup::default() / Backup::new()
EmptyBackup == [files |-> EmptyMap, directories |-> {}, symlinks |-> EmptyMap]
\* Database::default() / Database::new()
EmptyDatabase == [backups |-> EmptyMap, data_blocks |-> EmptyMap]
\* BackupBuilder::new()
NewBuilder == [inner |-> EmptyBackup, new_files |-> << >>]

\* The database document: what Database::load reads from it.
OnDisk(db) == [readable |-> TRUE, db |-> db]
Corrupt == [readable |-> FALSE, db |-> EmptyDatabase]
\* An empty source directory.
NoTree == [path \in Paths |-> Absent]
\* The local state of a backup command: the name given, the database loaded, the
\* builder, the index of the next new file to ingest; and of its source, the
\* tree the walk found and the paths whose bytes the walk read.
NoBackup == [name |-> "", db |-> EmptyDatabase, bb |-> NewBuilder, next |-> 0,
             tree |-> NoTree, hashed |-> {}]
\* No backup of a name has been committed.
NotTaken == [done |-> FALSE, tree |-> NoTree]

----------------------------------------------------------------------------
(* src/database.rs, src/vault/database.rs, src/vault/backup.rs *)

\* BackupBuilder::insert_directory
InsertDirectory(bb, path) ==
    [bb EXCEPT !.inner.directories = @ \cup {path}]

\* A fault of InsertSymlink: the target is taken for the path.
InsertSymlinkSwapped(bb, path, target) ==
    [bb EXCEPT !.inner.symlinks = Put(@, target, path)]

\* BackupBuilder::insert_symlink
InsertSymlink(bb, path, target) ==
    [bb EXCEPT !.inner.symlinks = Put(@, path, target)]

\* The file record a builder keeps: the flat revision's BackupFileMetadata has
\* no mtime, the vault revision's BackupFile has one.
FileRecord(r, path, hash, mtime) ==
    [path |-> path, hash |-> hash, mtime |-> IF r = "vault" THEN mtime ELSE 0]

\* BackupBuilder::insert_unchanged_file
InsertUnchangedFile(r, bb, path, hash, ino, mtime) ==
    [bb EXCEPT !.inner.files = Put(@, ino, FileRecord(r, path, hash, mtime))]

\* A fault of InsertNewFile: the file is recorded and not queued for ingestion.
InsertNewFileNotQueued(r, bb, path, hash, ino, mtime, size) ==
    [bb EXCEPT !.inner.files = Put(@, ino, FileRecord(r, path, hash, mtime))]

\* BackupBuilder::insert_new_file: the record, and the file queued for ingestion.
InsertNewFile(r, bb, path, hash, ino, mtime, size) ==
    [bb EXCEPT !.inner.files = Put(@, ino, FileRecord(r, path, hash, mtime)),
               !.new_files = Append(@, [source |-> path, hash |-> hash, ino |-> ino,
                                        mtime |-> mtime, size |-> size])]

\* The bytes of the source file a queued file names: those that were hashed.
SourceBytes(hash) == CHOOSE c \in Contents : Blake3(c) = hash

\* Database::get_backup: the view of the named backup, or none.
GetBackup(db, name) ==
    IF name \in DOMAIN db.backups
    THEN [some |-> TRUE, backup |-> db.backups[name], data_blocks |-> db.data_blocks]
    ELSE [some |-> FALSE, backup |-> EmptyBackup, data_blocks |-> db.data_blocks]

\* A fault of GetFile: a record whose hash has no data block is taken for no
\* record.
GetFileSkipsDangling(r, view, ino) ==
    IF \/ ~view.some \/ ino \notin DOMAIN view.backup.files
       \/ view.backup.files[ino].hash \notin DOMAIN view.data_blocks
    THEN [found |-> "none", hash |-> "", mtime |-> 0]
    ELSE LET f == view.backup.files[ino]
         IN  [found |-> "some", hash |-> f.hash,
              mtime |-> IF r = "vault" THEN f.mtime ELSE view.data_blocks[f.hash].mtime]

\* BackupView::get_file: "none", "panic" (the record's hash has no data block)
\* or the file with the mtime its revision compares against.
GetFile(r, view, ino) ==
    IF ~view.some \/ ino \notin DOMAIN view.backup.files
    THEN [found |-> "none", hash |-> "", mtime |-> 0]
    ELSE LET f == view.backup.files[ino]
         IN  IF f.hash \notin DOMAIN view.data_blocks
             THEN [found |-> "panic", hash |-> "", mtime |-> 0]
             ELSE [found |-> "some", hash |-> f.hash,
                   mtime |-> IF r = "vault" THEN f.mtime
                             ELSE view.data_blocks[f.hash].mtime]

\* The metadata kept for a stored content: DataBlockMetadata of src/database.rs
\* is the mtime, DataBlock of src/vault/database.rs the size.
DataBlockOf(r, mtime, size) ==
    [mtime |-> IF r = "vault" THEN 0 ELSE mtime, size |-> IF r = "vault" THEN size ELSE 0]

\* Database::insert_backup_builder of src/database.rs: the snapshot replaces the
\* one of its name, then each new file's data block is inserted and must be new;
\* the assertion is made after the insertion.
RECURSIVE InsertBlocksFlat(_, _, _)
InsertBlocksFlat(blocks, new_files, i) ==
    IF i > Len(new_files) THEN [ok |-> TRUE, blocks |-> blocks]
    ELSE LET f == new_files[i]
             inserted == Put(blocks, f.hash, DataBlockOf("flat", f.mtime, f.size))
         IN  IF f.hash \in DOMAIN blocks
             THEN [ok |-> FALSE, blocks |-> inserted]
             ELSE InsertBlocksFlat(inserted, new_files, i + 1)

InsertBackupBuilderFlat(db, name, bb) ==
    LET r == InsertBlocksFlat(db.data_blocks, bb.new_files, 1)
    IN  [ok |-> r.ok,
         db |-> [backups |-> Put(db.backups, name, bb.inner), data_blocks |-> r.blocks]]

\* Database::insert_backup_builder of src/vault/database.rs: each new file's data
\* block is inserted, a block of the same hash must have the same size; then the
\* snapshot replaces the one of its name. The sizes are compared after the
\* insertion has put the new block in the place of the old.
RECURSIVE InsertBlocksVault(_, _, _)
InsertBlocksVault(blocks, new_files, i) ==
    IF i > Len(new_files) THEN [ok |-> TRUE, blocks |-> blocks]
    ELSE LET f == new_files[i]
             inserted == Put(blocks, f.hash, DataBlockOf("vault", f.mtime, f.size))
         IN  IF f.hash \in DOMAIN blocks /\ blocks[f.hash].size # f.size
             THEN [ok |-> FALSE, blocks |-> inserted]
             ELSE InsertBlocksVault(inserted, new_files, i + 1)

\* A fault of InsertBackupBuilderVault: a snapshot of the name is kept.
InsertBackupBuilderKeepsOld(db, name, bb) ==
    LET r == InsertBlocksVault(db.data_blocks, bb.new_files, 1)
    IN  [ok |-> r.ok,
         db |-> [backups |-> IF r.ok /\ name \notin DOMAIN db.backups
                             THEN Put(db.backups, name, bb.inner) ELSE db.backups,
                 data_blocks |-> r.blocks]]

InsertBackupBuilderVault(db, name, bb) ==
    LET r == InsertBlocksVault(db.data_blocks, bb.new_files, 1)
    IN  [ok |-> r.ok,
         db |-> [backups |-> IF r.ok THEN Put(db.backups, name, bb.inner) ELSE db.backups,
                 data_blocks |-> r.blocks]]

\* A fault of InsertBackupBuilder: the entries of the snapshot of the name that
\* the new snapshot does not have are kept in it.
InsertBackupBuilderMerges(r, db, name, bb) ==
    LET was == GetBackup(db, name).backup
        merged == [files |-> [ino \in DOMAIN was.files \cup DOMAIN bb.inner.files |->
                                IF ino \in DOMAIN bb.inner.files THEN bb.inner.files[ino]
                                ELSE was.files[ino]],
                   directories |-> was.directories \cup bb.inner.directories,
                   symlinks |-> [path \in DOMAIN was.symlinks \cup DOMAIN bb.inner.symlinks |->
                                   IF path \in DOMAIN bb.inner.symlinks
                                   THEN bb.inner.symlinks[path] ELSE was.symlinks[path]]]
        kept == [bb EXCEPT !.inner = merged]
    IN  IF r = "vault" THEN InsertBackupBuilderVault(db, name, kept)
        ELSE InsertBackupBuilderFlat(db, name, kept)

InsertBackupBuilder(r, db, name, bb) ==
    IF r = "vault" THEN InsertBackupBuilderVault(db, name, bb)
    ELSE InsertBackupBuilderFlat(db, name, bb)

----------------------------------------------------------------------------
(* src/main.rs: the scan *)

\* A fault of BackupSingleDirEntry: a special file is skipped.
BackupSingleDirEntrySkipsSpecial(r, bb, old, path, e) ==
    [ok |-> TRUE, err |-> "", hashed |-> e.kind = "file",
     bb |-> CASE e.kind = "file" ->
                    InsertNewFile(r, bb, path, Blake3(e.content), e.ino, e.mtime,
                                  SizeOf(e.content))
              [] e.kind = "dir" -> InsertDirectory(bb, path)
              [] e.kind = "symlink" -> InsertSymlink(bb, path, e.content)
              [] OTHER -> bb]

\* backup_single_dir_entry: the builder after one directory entry, or an error;
\* `hashed` tells whether hash_file read the entry's bytes.
BackupSingleDirEntry(r, bb, old, path, e) ==
    CASE e.kind = "file" ->
            LET old_file == GetFile(r, old, e.ino)
                hash == Blake3(e.content)
            IN  CASE old_file.found = "panic" ->
                        [ok |-> FALSE, err |-> "panic", hashed |-> FALSE, bb |-> bb]
                  [] old_file.found = "some" /\ e.mtime <= old_file.mtime ->
                        [ok |-> TRUE, err |-> "", hashed |-> FALSE,
                         bb |-> InsertUnchangedFile(r, bb, path, old_file.hash, e.ino, e.mtime)]
                  [] old_file.found = "some" /\ e.mtime > old_file.mtime ->
                        [ok |-> TRUE, err |-> "", hashed |-> TRUE,
                         bb |-> IF old_file.hash = hash
                                THEN InsertUnchangedFile(r, bb, path, hash, e.ino, e.mtime)
                                ELSE InsertNewFile(r, bb, path, hash, e.ino, e.mtime,
                                                   SizeOf(e.content))]
                  [] OTHER ->
                        [ok |-> TRUE, err |-> "", hashed |-> TRUE,
                         bb |-> InsertNewFile(r, bb, path, hash, e.ino, e.mtime,
                                              SizeOf(e.content))]
      [] e.kind = "dir" ->
            [ok |-> TRUE, err |-> "", hashed |-> FALSE, bb |-> InsertDirectory(bb, path)]
      [] e.kind = "symlink" ->
            [ok |-> TRUE, err |-> "", hashed |-> FALSE,
             bb |-> InsertSymlink(bb, path, e.content)]
      [] OTHER -> [ok |-> FALSE, err |-> "special file", hashed |-> FALSE, bb |-> bb]

\* cmd_backup, lines 82-88: the loop over WalkDir. An entry that is absent is not
\* walked; `failAt` is the path, if any, whose metadata or bytes cannot be read.
RECURSIVE Walk(_, _, _, _, _, _)
Walk(r, t, bb, old, failAt, i) ==
    IF i > Len(PathSeq) THEN [ok |-> TRUE, err |-> "", bb |-> bb]
    ELSE LET path == PathSeq[i]
             e == t[path]
         IN  IF e.kind = "absent" THEN Walk(r, t, bb, old, failAt, i + 1)
             ELSE IF failAt = path THEN [ok |-> FALSE, err |-> "dir_entry", bb |-> bb]
             ELSE LET s == BackupSingleDirEntry(r, bb, old, path, e)
                  IN  IF s.ok THEN Walk(r, t, s.bb, old, failAt, i + 1)
                      ELSE [ok |-> FALSE, err |-> s.err, bb |-> bb]

\* The paths whose bytes a walk that reaches the end of the tree has read.
WalkHashed(r, t, old) ==
    {path \in Paths : /\ t[path].kind # "absent"
                      /\ BackupSingleDirEntry(r, NewBuilder, old, path, t[path]).hashed}

----------------------------------------------------------------------------
(* src/storage.rs, src/vault/storage.rs *)

\* fs::copy(source, dest): what the destination holds afterwards. A copy that
\* fails may have created nothing, or may leave a partial destination.
CopyOutcomes(bytes) ==
    {[ok |-> TRUE, dest |-> bytes],
     [ok |-> FALSE, dest |-> "none"],
     [ok |-> FALSE, dest |-> "partial"]}

\* storage::store_file of src/storage.rs: an existing destination is an error.
StoreFile(st, bytes, hash) ==
    IF st[hash] # "none"
    THEN {[ok |-> FALSE, err |-> "already exists", store |-> st]}
    ELSE {[ok |-> c.ok, err |-> IF c.ok THEN "" ELSE "copy",
           store |-> [st EXCEPT ![hash] = c.dest]] : c \in CopyOutcomes(bytes)}

\* A fault of InsertFile: the destination is not looked for, and the bytes are
\* copied again.
InsertFileAlwaysCopies(st, bytes, hash) ==
    {[ok |-> c.ok, err |-> IF c.ok THEN "" ELSE "copy",
      store |-> [st EXCEPT ![hash] = c.dest], mkdir |-> FALSE, copied |-> TRUE] :
        c \in CopyOutcomes(bytes)}

\* Storage::insert_file of src/vault/storage.rs: an existing destination is kept.
\* Otherwise the shard directory is made if it is not there (`mkdir`), which may
\* fail, and the bytes are copied.
InsertFile(st, bytes, hash) ==
    IF st[hash] # "none"
    THEN {[ok |-> TRUE, err |-> "", store |-> st, mkdir |-> FALSE, copied |-> FALSE]}
    ELSE {[ok |-> FALSE, err |-> "mkdir", store |-> st, mkdir |-> TRUE, copied |-> FALSE]}
         \cup {[ok |-> c.ok, err |-> IF c.ok THEN "" ELSE "copy",
                 store |-> [st EXCEPT ![hash] = c.dest],
                 mkdir |-> m, copied |-> TRUE] :
                    c \in CopyOutcomes(bytes), m \in BOOLEAN}

Ingest(r, st, bytes, hash) ==
    IF r = "vault" THEN InsertFile(st, bytes, hash) ELSE StoreFile(st, bytes, hash)

----------------------------------------------------------------------------
(* src/main.rs: cmd_backup, one step per access to the vault directory *)

Finish(p, how, why) ==
    /\ pc' = [pc EXCEPT ![p] = how]
    /\ err' = [err EXCEPT ![p] = why]
    /\ bk' = [bk EXCEPT ![p] = NoBackup]

\* A process starts the backup command: cmd_backup, line 72, Database::load.
\* `max` bounds the number of commands of a run.
BackupLoadWithin(p, max) ==
    /\ pc[p] = "idle"
    /\ cmd[p] = "none"
    /\ started < max
    /\ started' = started + 1
    /\ cmd' = [cmd EXCEPT ![p] = "backup"]
    /\ \E name \in Names, fault \in BOOLEAN :
        IF fault \/ ~dbDisk.readable
        THEN Finish(p, "failed", "loading database")
        ELSE /\ bk' = [bk EXCEPT ![p] = [NoBackup EXCEPT !.name = name, !.db = dbDisk.db]]
             /\ pc' = [pc EXCEPT ![p] = "bk_walk"]
             /\ err' = [err EXCEPT ![p] = ""]
    /\ Quiet
    /\ UNCHANGED <<lockVars, apart, dbDisk, store, taken>>

BackupLoad(p) == BackupLoadWithin(p, MaxCmds)

\* What a walk is given: whether it comes to a special file before an entry it
\* cannot read, and how many regular files lie before that special file.
IndexOf(path) == CHOOSE i \in 1..Len(PathSeq) : PathSeq[i] = path
SpecialAt(tree) ==
    LET at == {i \in 1..Len(PathSeq) : tree[PathSeq[i]].kind = "special"}
    IN  IF at = {} THEN 0 ELSE CHOOSE i \in at : \A j \in at : i <= j
Given(p, tree, failAt) ==
    LET k == SpecialAt(tree)
        reached == k # 0 /\ (failAt = "none" \/ IndexOf(failAt) > k)
    IN  [proc |-> p, special |-> reached,
         files |-> IF reached
                   THEN Cardinality({i \in 1..(k - 1) : tree[PathSeq[i]].kind = "file"})
                   ELSE 0]

\* cmd_backup, lines 73-88: get_backup and the walk of the source tree.
BackupWalk(p, trees) ==
    /\ pc[p] = "bk_walk"
    /\ \E tree \in trees, failAt \in Paths \cup {"none"} :
        LET old == GetBackup(bk[p].db, bk[p].name)
            w == Walk(rev, tree, NewBuilder, old, failAt, 1)
        IN  /\ IF w.ok
               THEN /\ bk' = [bk EXCEPT ![p].bb = w.bb, ![p].next = 1, ![p].tree = tree,
                                         ![p].hashed = WalkHashed(rev, tree, old)]
                    /\ pc' = [pc EXCEPT ![p] = "bk_ingest"]
                    /\ UNCHANGED err
               ELSE Finish(p, "failed", w.err)
            /\ seen' = Given(p, tree, failAt)
    /\ last' = NoCall
    /\ UNCHANGED <<lockVars, cmd, apart, dbDisk, store, started, taken>>

\* The source tree {a/file1 (bytes "x"), a/dir/, a/link -> file1} as WalkDir
\* yields it from the directory that holds `a`: the directory `a`, then its
\* entries in the order in which the directory lists them.
ScenarioEntries ==
    {[path |-> "a/file1", e |-> File(1, 1, "x")],
     [path |-> "a/dir", e |-> DirectoryEntry],
     [path |-> "a/link", e |-> [SymlinkEntry EXCEPT !.content = "file1"]]}

ScenarioWalks ==
    {<<[path |-> "a", e |-> DirectoryEntry]>> \o inside :
        inside \in {q \in [1..Cardinality(ScenarioEntries) -> ScenarioEntries] :
                        \A i, j \in DOMAIN q : i # j => q[i] # q[j]}}

\* cmd_backup, lines 82-88: the loop over the entries WalkDir yields; `failAt`
\* is the place, if any, of the entry whose metadata or bytes cannot be read.
RECURSIVE WalkOf(_, _, _, _, _, _)
WalkOf(r, entries, bb, old, failAt, i) ==
    IF i > Len(entries) THEN [ok |-> TRUE, err |-> "", bb |-> bb]
    ELSE IF failAt = i THEN [ok |-> FALSE, err |-> "dir_entry", bb |-> bb]
    ELSE LET s == BackupSingleDirEntry(r, bb, old, entries[i].path, entries[i].e)
         IN  IF s.ok THEN WalkOf(r, entries, s.bb, old, failAt, i + 1)
             ELSE [ok |-> FALSE, err |-> s.err, bb |-> bb]

\* cmd_backup, lines 73-88, on a source tree given as what WalkDir yields.
BackupWalkOf(p, walks) ==
    /\ pc[p] = "bk_walk"
    /\ \E entries \in walks :
        \E failAt \in 0..Len(entries) :
            LET old == GetBackup(bk[p].db, bk[p].name)
                w == WalkOf(rev, entries, NewBuilder, old, failAt, 1)
            IN  IF w.ok
                THEN /\ bk' = [bk EXCEPT ![p].bb = w.bb, ![p].next = 1,
                                         ![p].hashed =
                                            {entries[i].path : i \in
                                                {j \in 1..Len(entries) :
                                                    BackupSingleDirEntry(rev, NewBuilder, old,
                                                        entries[j].path, entries[j].e).hashed}}]
                     /\ pc' = [pc EXCEPT ![p] = "bk_ingest"]
                     /\ UNCHANGED err
                ELSE Finish(p, "failed", w.err)
    /\ Quiet
    /\ UNCHANGED <<lockVars, cmd, apart, dbDisk, store, started, taken>>

\* A fault of BackupIngest: the result of store_file is dropped, and the loop
\* goes on after a failure.
BackupIngestIgnoresError(p) ==
    /\ pc[p] = "bk_ingest"
    /\ LET new_files == bk[p].bb.new_files
           i == bk[p].next
       IN  IF i > Len(new_files)
           THEN /\ pc' = [pc EXCEPT ![p] = "bk_commit"]
                /\ UNCHANGED <<store, bk, err>>
           ELSE \E o \in Ingest(rev, store, SourceBytes(new_files[i].hash), new_files[i].hash) :
                   /\ store' = o.store
                   /\ bk' = [bk EXCEPT ![p].next = i + 1]
                   /\ UNCHANGED <<pc, err>>
    /\ Quiet
    /\ UNCHANGED <<lockVars, cmd, apart, dbDisk, started, taken>>

\* cmd_backup, lines 90-93: one iteration of the ingestion loop, or its end.
BackupIngest(p) ==
    /\ pc[p] = "bk_ingest"
    /\ LET new_files == bk[p].bb.new_files
           i == bk[p].next
       IN  IF i > Len(new_files)
           THEN /\ pc' = [pc EXCEPT ![p] = "bk_commit"]
                /\ UNCHANGED <<store, bk, err>>
           ELSE \E o \in Ingest(rev, store, SourceBytes(new_files[i].hash), new_files[i].hash) :
                   /\ store' = o.store
                   /\ IF o.ok
                      THEN /\ bk' = [bk EXCEPT ![p].next = i + 1]
                           /\ UNCHANGED <<pc, err>>
                      ELSE Finish(p, "failed", o.err)
    /\ Quiet
    /\ UNCHANGED <<lockVars, cmd, apart, dbDisk, started, taken>>

\* The ingestion loop with the two accesses that store_file and insert_file
\* make to the vault directory taken apart: try_exists on the destination, then
\* create_dir and fs::copy. Here the first: a destination that exists ends the
\* call, with Ok in src/vault/storage.rs and with an error in src/storage.rs.
BackupIngestStat(p) ==
    /\ pc[p] = "bk_ingest"
    /\ LET new_files == bk[p].bb.new_files
           i == bk[p].next
       IN  IF i > Len(new_files)
           THEN /\ pc' = [pc EXCEPT ![p] = "bk_commit"]
                /\ UNCHANGED <<bk, err>>
           ELSE IF store[new_files[i].hash] = "none"
           THEN /\ pc' = [pc EXCEPT ![p] = "bk_copy"]
                /\ UNCHANGED <<bk, err>>
           ELSE IF rev = "vault"
           THEN /\ bk' = [bk EXCEPT ![p].next = i + 1]
                /\ UNCHANGED <<pc, err>>
           ELSE Finish(p, "failed", "already exists")
    /\ Quiet
    /\ UNCHANGED <<lockVars, cmd, apart, dbDisk, store, started, taken>>

\* fs::copy onto a destination that may exist: it opens the destination for
\* writing, which truncates it, and writes the source's bytes. A copy that
\* fails before the destination is opened leaves what was there.
CopyOnto(was, bytes) ==
    {[ok |-> c.ok, dest |-> IF ~c.ok /\ c.dest = "none" THEN was ELSE c.dest] :
        c \in CopyOutcomes(bytes)}

\* How the second access ends: the shard directory is made if it is not
\* there, which may fail in insert_file, and the bytes are copied.
CopyEnds(r, was, bytes) ==
    (IF r = "vault" THEN {[ok |-> FALSE, err |-> "mkdir", dest |-> was]} ELSE {})
    \cup {[ok |-> c.ok, err |-> IF c.ok THEN "" ELSE "copy", dest |-> c.dest] :
            c \in CopyOnto(was, bytes)}

\* The second access, made on whatever has come to be at the destination
\* since the test.
BackupIngestCopy(p) ==
    /\ pc[p] = "bk_copy"
    /\ LET hash == bk[p].bb.new_files[bk[p].next].hash
       IN  \E c \in CopyEnds(rev, store[hash], SourceBytes(hash)) :
                /\ store' = [store EXCEPT ![hash] = c.dest]
                /\ IF c.ok
                   THEN /\ bk' = [bk EXCEPT ![p].next = bk[p].next + 1]
                        /\ pc' = [pc EXCEPT ![p] = "bk_ingest"]
                        /\ UNCHANGED err
                   ELSE Finish(p, "failed", c.err)
    /\ Quiet
    /\ UNCHANGED <<lockVars, cmd, apart, dbDisk, started, taken>>

\* How a call of Database::write ends: File::create has truncated the document
\* and the serializer writes into it; the call returns Ok when all is written,
\* or it returns an error, or the process is killed, part-way.
WriteEnds == {"written", "writing database", "killed"}

\* cmd_backup, lines 95-98: insert_backup_builder, then Database::write, which
\* truncates the document and writes the whole of it.
BackupCommit(p) ==
    /\ pc[p] = "bk_commit"
    /\ LET c == InsertBackupBuilder(rev, bk[p].db, bk[p].name, bk[p].bb)
       IN  IF ~c.ok
           THEN /\ Finish(p, "failed", "panic")
                /\ UNCHANGED <<dbDisk, taken>>
           ELSE \E end \in WriteEnds :
                   IF end # "written"
                   THEN /\ dbDisk' = Corrupt
                        /\ Finish(p, "failed", end)
                        /\ UNCHANGED taken
                   ELSE /\ dbDisk' = OnDisk(c.db)
                        /\ Finish(p, "done", "")
                        /\ taken' = [taken EXCEPT ![bk[p].name] =
                                        [done |-> TRUE, tree |-> bk[p].tree]]
    /\ Quiet
    /\ UNCHANGED <<lockVars, cmd, apart, store, started>>

\* The document a command at its commit is about to write.
NewDocument(p) == OnDisk(InsertBackupBuilder(rev, bk[p].db, bk[p].name, bk[p].bb).db)

\* The process exits; another command may be started in its place.
Exit(p) ==
    /\ pc[p] \in {"done", "failed"}
    /\ p \notin held
    /\ pc' = [pc EXCEPT ![p] = "idle"]
    /\ cmd' = [cmd EXCEPT ![p] = "none"]
    /\ res' = [res EXCEPT ![p] = "none"]
    /\ blocked' = [blocked EXCEPT ![p] = FALSE]
    /\ Quiet
    /\ UNCHANGED <<lockFile, held, watch, event, dataVars>>

----------------------------------------------------------------------------
(* src/vault.rs *)

\* Vault::open -> Vault::open_dir, lines 33-35: DirectoryLock::new, blocking_lock.
VaultOpen(p) ==
    /\ pc[p] = "idle"
    /\ cmd[p] = "none"
    /\ started < MaxCmds
    /\ started' = started + 1
    /\ cmd' = [cmd EXCEPT ![p] = "list"]
    /\ pc' = [pc EXCEPT ![p] = "bl_try"]
    /\ res' = [res EXCEPT ![p] = "none"]
    /\ blocked' = [blocked EXCEPT ![p] = FALSE]
    /\ err' = [err EXCEPT ![p] = ""]
    /\ Quiet
    /\ UNCHANGED <<lockFile, held, watch, event, apart, dbDisk, store, bk, taken>>

\* A fault of OpenDirLoad: the DirectoryLock has a destructor that unlocks, so
\* that returning early removes the lock file, taken or not.
OpenDirLoadUnlocks(p) ==
    /\ pc[p] = "od_load"
    /\ IF res[p] # "Ok"
       THEN /\ pc' = [pc EXCEPT ![p] = "failed"]
            /\ err' = [err EXCEPT ![p] = "locking"]
            /\ UnlockEffect(p, FALSE)
       ELSE /\ \E fault \in BOOLEAN :
                   IF fault \/ ~dbDisk.readable
                   THEN /\ pc' = [pc EXCEPT ![p] = "failed"]
                        /\ err' = [err EXCEPT ![p] = "Loading database"]
                   ELSE /\ pc' = [pc EXCEPT ![p] = "opened"]
                        /\ UNCHANGED err
            /\ UNCHANGED <<lockFile, held, event>>
    /\ Quiet
    /\ UNCHANGED <<res, blocked, watch, cmd, apart, dbDisk, store, bk, started, taken>>

\* open_dir, lines 35-43: the `?` on blocking_lock's result, Database::load with
\* its `?`, and the construction of the Vault. DirectoryLock has no destructor:
\* returning early drops `lock` without unlocking.
OpenDirLoad(p) ==
    /\ pc[p] = "od_load"
    /\ IF res[p] # "Ok"
       THEN /\ pc' = [pc EXCEPT ![p] = "failed"]
            /\ err' = [err EXCEPT ![p] = "locking"]
       ELSE \E fault \in BOOLEAN :
               IF fault \/ ~dbDisk.readable
               THEN /\ pc' = [pc EXCEPT ![p] = "failed"]
                    /\ err' = [err EXCEPT ![p] = "Loading database"]
               ELSE /\ pc' = [pc EXCEPT ![p] = "opened"]
                    /\ UNCHANGED err
    /\ Quiet
    /\ UNCHANGED <<lockVars, cmd, apart, dbDisk, store, bk, started, taken>>

\* The command returns and its Vault is dropped: Drop for Vault calls unlock and
\* prints an error of it; the command's result is not affected.
VaultDrop(p) ==
    /\ pc[p] = "opened"
    /\ \E fault \in BOOLEAN : UnlockEffect(p, fault)
    /\ pc' = [pc EXCEPT ![p] = "done"]
    /\ Quiet
    /\ UNCHANGED <<cmd, res, blocked, watch, dataVars>>

----------------------------------------------------------------------------
(* Direct calls of the functions of the storage, scan and database modules *)

\* What a direct call leaves alone, besides what it is given.
callFrame == <<lockFile, held, pc, cmd, res, blocked, watch, event, apart, bk, err, started, taken>>

\* A call of Storage::insert_file(source, hash) on the content store, `hash`
\* being the hash of the source's bytes.
InsertFileCall ==
    /\ \E content \in Contents :
        LET hash == Blake3(content)
        IN  \E o \in InsertFile(store, content, hash) :
                /\ store' = o.store
                /\ last' = [op |-> "insert_file", hash |-> hash,
                            existed |-> store[hash] # "none", ok |-> o.ok,
                            mkdir |-> o.mkdir, copied |-> o.copied]
    /\ seen' = NoWalk
    /\ UNCHANGED <<callFrame, dbDisk>>

\* The databases insert_backup_builder is called on: none, one or two snapshots
\* of one file, whose content's data block the table has.
SnapshotOf(r, hash) ==
    [EmptyBackup EXCEPT !.files = Put(EmptyMap, 1, FileRecord(r, "a", hash, 1))]

Databases(r) ==
    {EmptyDatabase} \cup
    {[backups |-> bs, data_blocks |-> Put(EmptyMap, "hx", DataBlockOf(r, 1, size))] :
        bs \in {Put(EmptyMap, "s1", SnapshotOf(r, "hx")),
                Put(Put(EmptyMap, "s1", SnapshotOf(r, "hx")), "s2", SnapshotOf(r, "hx"))},
        size \in 1..MaxSize}

\* The builders insert_backup_builder is given: BackupBuilder::new(), then
\* insert_new_file for up to MaxNewFiles files of any hash and size.
RECURSIVE BuilderOf(_, _, _)
BuilderOf(r, files, i) ==
    IF i = 0 THEN NewBuilder
    ELSE InsertNewFile(r, BuilderOf(r, files, i - 1), PathSeq[i], files[i].hash, i,
                       MaxMTime, files[i].size)

Builders(r) ==
    {BuilderOf(r, files, n) :
        files \in [1..MaxNewFiles -> [hash : Hashes, size : 1..MaxSize]],
        n \in 0..MaxNewFiles}

\* A call of Database::insert_backup_builder(name, bb) on a database.
InsertBackupBuilderCall ==
    /\ \E db \in Databases(rev), name \in Names, bb \in Builders(rev) :
        LET c == InsertBackupBuilder(rev, db, name, bb)
        IN  last' = [op |-> "insert_backup_builder", db |-> db, name |-> name,
                     bb |-> bb, ok |-> c.ok, out |-> c.db]
    /\ seen' = NoWalk
    /\ UNCHANGED <<callFrame, dbDisk, store>>

----------------------------------------------------------------------------
\* The views get_file is called on: snapshots with no, one or two file records
\* of any hashes, joined with a data-block table that has any of the hashes.
Views(r) ==
    {[some |-> TRUE,
      backup |-> [EmptyBackup EXCEPT !.files = [i \in inos |-> FileRecord(r, "a", hashOf[i], 1)]],
      data_blocks |-> [h \in known |-> DataBlockOf(r, 1, 1)]] :
        inos \in SUBSET Inos, hashOf \in [Inos -> Hashes], known \in SUBSET Hashes}

\* A call of BackupView::get_file(ino), for an inode that may have a record.
GetFileCall ==
    /\ \E view \in Views(rev), ino \in Inos \cup {0} :
        last' = [op |-> "get_file", view |-> view, ino |-> ino,
                 found |-> GetFile(rev, view, ino).found]
    /\ seen' = NoWalk
    /\ UNCHANGED <<callFrame, dbDisk, store>>

----------------------------------------------------------------------------
(* src/util.rs, src/database.rs: MTime *)

\* The widths of MTime's fields and the nanoseconds of a second, scaled down:
\* `sec` is a u64 of largest value MaxSec, `nano` a u32 of largest value
\* MaxNano, and NanosPerSec stands for 1_000_000_000, which a u32 exceeds.
MaxSec == 3
MaxNano == 5
NanosPerSec == 2

\* The MTime values: the derived Deserialize takes any u64 and any u32.
MTimes == [sec : 0..MaxSec, nano : 0..MaxNano]

\* Duration::new(secs, nanos): nanoseconds of a second or more are carried
\* into the seconds, and the carry panics when the seconds overflow.
DurationNew(secs, nanos) ==
    IF nanos < NanosPerSec THEN [panic |-> FALSE, secs |-> secs, nanos |-> nanos]
    ELSE IF secs + (nanos \div NanosPerSec) > MaxSec
    THEN [panic |-> TRUE, secs |-> 0, nanos |-> 0]
    ELSE [panic |-> FALSE, secs |-> secs + (nanos \div NanosPerSec),
          nanos |-> nanos % NanosPerSec]

\* Ord::cmp of MTime: the Durations made of the two values are compared.
MTimeCmp(a, b) ==
    LET da == DurationNew(a.sec, a.nano)
        db == DurationNew(b.sec, b.nano)
    IN  IF da.panic \/ db.panic THEN "panic"
        ELSE IF da.secs < db.secs \/ (da.secs = db.secs /\ da.nanos < db.nanos) THEN "Less"
        ELSE IF da.secs = db.secs /\ da.nanos = db.nanos THEN "Equal"
        ELSE "Greater"

\* The derived PartialEq of MTime: both fields are equal.
MTimeEq(a, b) == a.sec = b.sec /\ a.nano = b.nano

\* A call of a.cmp(&b) and of a == b on two MTime values.
MTimeCmpCall ==
    /\ \E a, b \in MTimes :
        last' = [op |-> "cmp", a |-> a, b |-> b,
                 ordering |-> MTimeCmp(a, b), eq |-> MTimeEq(a, b)]
    /\ seen' = NoWalk
    /\ UNCHANGED <<callFrame, dbDisk, store>>

----------------------------------------------------------------------------
(* src/cmd/init.rs, src/util.rs; src/main.rs: cmd_init *)

\* A directory given to `init`: whether read_dir can list it, whether it holds
\* entries that are not a vault's, whether it has the data subtree, and the
\* database document in it, if any.
NoDocument == {}
Dirs == [access : BOOLEAN, others : BOOLEAN, data : BOOLEAN,
         document : {NoDocument, {OnDisk(EmptyDatabase)}, {Corrupt}}]
EmptyDir == [access |-> TRUE, others |-> FALSE, data |-> FALSE, document |-> NoDocument]
IsEmpty(d) == ~d.others /\ ~d.data /\ d.document = NoDocument

\* Where init may meet an I/O error in a directory that it found empty.
InitFaults == {"none", "create_dir", "File::create", "write"}

\* ensure_dir_exists_and_is_empty, and the same two lines of cmd_init: the
\* error it returns, "" for none.
EnsureDirExistsAndIsEmpty(d) ==
    IF ~d.access THEN "read_dir"
    ELSE IF ~IsEmpty(d) THEN "is not empty"
    ELSE ""

\* Database::new().write(dir), Database::default().write(path): File::create
\* makes the document, and the serializer writes the empty database into it.
WriteNew(d, fault) ==
    CASE fault = "File::create" -> [ok |-> FALSE, err |-> "writing db file", dir |-> d]
      [] fault = "write" ->
            [ok |-> FALSE, err |-> "write", dir |-> [d EXCEPT !.document = {Corrupt}]]
      [] OTHER ->
            [ok |-> TRUE, err |-> "", dir |-> [d EXCEPT !.document = {OnDisk(EmptyDatabase)}]]

\* run of src/cmd/init.rs (revision "vault": the check, create_dir of the data
\* subtree, the write) and cmd_init of src/main.rs (revision "flat": the check
\* and the write): the result and the directory afterwards.
InitOf(r, d, fault) ==
    LET e == EnsureDirExistsAndIsEmpty(d)
    IN  IF e # "" THEN [ok |-> FALSE, err |-> e, dir |-> d]
        ELSE IF r = "flat" THEN WriteNew(d, fault)
        ELSE IF fault = "create_dir" THEN [ok |-> FALSE, err |-> "create_dir", dir |-> d]
        ELSE WriteNew([d EXCEPT !.data = TRUE], fault)

\* A call of `init` on a directory, before the vault's first command.
InitCall ==
    /\ started = 0
    /\ \E d \in Dirs, fault \in InitFaults :
        LET o == InitOf(rev, d, fault)
        IN  last' = [op |-> "init", before |-> d, fault |-> fault, ok |-> o.ok,
                     after |-> o.dir]
    /\ seen' = NoWalk
    /\ UNCHANGED <<callFrame, dbDisk, store>>

----------------------------------------------------------------------------
(* src/vault/database.rs, src/database.rs: Database::write and Database::load;
   src/util.rs: the serialization of Hash *)

\* The paths of the databases that are written and loaded: file names are
\* byte strings, and this one (63 61 66 E9) is not valid UTF-8.
NonUtf8Path == "caf<E9>"
RoundTripPaths == {"a", NonUtf8Path}
Utf8(path) == path # NonUtf8Path

\* Serialize for Hash: the 64-digit hex string of the hash (shortened here).
ToHex(hash) == IF hash = "hx" THEN "6878" ELSE "6879"

\* Deserialize for Hash, HashVisitor::visit_str: the string parsed as hex, or
\* an invalid-value error.
FromHex(str) ==
    IF \E h \in Hashes : ToHex(h) = str
    THEN [ok |-> TRUE, hash |-> CHOOSE h \in Hashes : ToHex(h) = str]
    ELSE [ok |-> FALSE, hash |-> ""]

\* The hash as the revision's document holds it: util::Hash is written as its
\* hex string, blake3::Hash of src/database.rs as its bytes.
HashOut(r, hash) == IF r = "vault" THEN ToHex(hash) ELSE hash
HashIn(r, str) == IF r = "vault" THEN FromHex(str) ELSE [ok |-> TRUE, hash |-> str]

\* The paths a snapshot holds: a PathBuf is serialized as a string, which
\* fails for a path that is not UTF-8.
PathsOf(b) ==
    {b.files[i].path : i \in DOMAIN b.files} \cup b.directories
        \cup DOMAIN b.symlinks \cup {b.symlinks[l] : l \in DOMAIN b.symlinks}

\* The derived Serialize of Backup: the file records, each with its inode (the
\* map's key in src/backup.rs, the record's field in src/vault/backup.rs), the
\* directories and the symlinks.
SerializeBackup(r, b) ==
    [files |-> {[ino |-> i, path |-> b.files[i].path, hash |-> HashOut(r, b.files[i].hash),
                 mtime |-> b.files[i].mtime] : i \in DOMAIN b.files},
     directories |-> b.directories,
     symlinks |-> b.symlinks]

\* The derived Deserialize of Backup: the records are keyed by their inodes.
DeserializeBackup(r, s) ==
    [files |-> [i \in {f.ino : f \in s.files} |->
                    LET f == CHOOSE f \in s.files : f.ino = i
                    IN  [path |-> f.path, hash |-> HashIn(r, f.hash).hash, mtime |-> f.mtime]],
     directories |-> s.directories,
     symlinks |-> s.symlinks]

\* The derived Serialize of Database: what the serializer is given to write, or
\* the error of the first value that cannot be serialized.
Serialize(r, db) ==
    IF \E name \in DOMAIN db.backups : \E path \in PathsOf(db.backups[name]) : ~Utf8(path)
    THEN [ok |-> FALSE, doc |-> << >>]
    ELSE [ok |-> TRUE,
          doc |-> [backups |-> [name \in DOMAIN db.backups |->
                                    SerializeBackup(r, db.backups[name])],
                   data_blocks |-> {[hash |-> HashOut(r, h), block |-> db.data_blocks[h]] :
                                        h \in DOMAIN db.data_blocks}]]

\* The derived Deserialize of Database; DataBlocks::deserialize keys the blocks
\* by their hashes.
Deserialize(r, doc) ==
    IF \E e \in doc.data_blocks : ~HashIn(r, e.hash).ok
    THEN [ok |-> FALSE, db |-> EmptyDatabase]
    ELSE [ok |-> TRUE,
          db |-> [backups |-> [name \in DOMAIN doc.backups |->
                                    DeserializeBackup(r, doc.backups[name])],
                  data_blocks |-> [h \in {HashIn(r, e.hash).hash : e \in doc.data_blocks} |->
                                    (CHOOSE e \in doc.data_blocks :
                                        HashIn(r, e.hash).hash = h).block]]]

\* Database::write: File::create makes or truncates the document, and the
\* serializer writes into it until it is done or meets an error.
Write(r, db) ==
    LET s == Serialize(r, db)
    IN  [ok |-> s.ok, file |-> [complete |-> s.ok, doc |-> s.doc]]

\* Database::load: File::open and the deserializer, which fails on a document
\* that is not complete.
Load(r, file) ==
    IF ~file.complete THEN [ok |-> FALSE, db |-> EmptyDatabase]
    ELSE Deserialize(r, file.doc)

\* The builders that are committed: a walk's builder of a regular file, a
\* directory and a symlink, one of whose paths may be the one that is not UTF-8.
RoundTripBuilders(r) ==
    {NewBuilder} \cup
    {LET name(at, path) == IF odd = at THEN NonUtf8Path ELSE path
         files == InsertNewFile(r, NewBuilder, name("file", "a"), Blake3(content), 1, 1,
                                SizeOf(content))
         dirs == InsertDirectory(files, name("dir", "b"))
     IN  InsertSymlink(dirs, name("link", "c"), name("target", "a")) :
        content \in Contents, odd \in {"none", "file", "dir", "link", "target"}}

\* The databases reached by committing one or two builders to the empty one.
RoundTripDatabases(r) ==
    LET first == {InsertBackupBuilder(r, EmptyDatabase, "s1", bb) : bb \in RoundTripBuilders(r)}
        second == {InsertBackupBuilder(r, c.db, name, bb) :
                      c \in first, name \in Names, bb \in RoundTripBuilders(r)}
    IN  {c.db : c \in {c \in first \cup second : c.ok}}

\* A call of Database::write(vault_dir) on a database, then of
\* Database::load(vault_dir).
WriteLoadCall ==
    /\ \E db \in RoundTripDatabases(rev) :
        LET w == Write(rev, db)
            l == Load(rev, w.file)
        IN  last' = [op |-> "write_load", db |-> db, wrote |-> w.ok, loaded |-> l.ok,
                     out |-> l.db]
    /\ seen' = NoWalk
    /\ UNCHANGED <<callFrame, dbDisk, store>>

----------------------------------------------------------------------------
(* src/cmd/mount.rs *)

\* A place in the file system: a path below the mount point, below the store
\* of the vault, below the current directory of the process (where a relative
\* path given to a system call resolves), or a path as it was recorded.
At(base, path) == [base |-> base, path |-> path]

\* create_dir_all(dir) and std::os::unix::fs::symlink(original, link): the entry
\* made, a directory at `dir`, a symlink at `link` whose target is `original`.
CreateDirAll(dir) == [at |-> dir, kind |-> "dir", to |-> At("", "")]
Symlink(original, link) == [at |-> link, kind |-> "symlink", to |-> original]

\* mount, lines 40-80: the entries it makes for a snapshot: the directories,
\* a symlink into the store for each file, and the backed-up symlinks.
MountEntries(backup) ==
    [dirs |-> {CreateDirAll(At("mount_point", dir)) : dir \in backup.directories},
     files |-> {Symlink(At("store", backup.files[i].hash),
                        At("mount_point", backup.files[i].path)) : i \in DOMAIN backup.files},
     links |-> {LET link_dest == At("mount_point", link)
                    link_target == At("cwd", backup.symlinks[link])
                IN  Symlink(link_dest, link_target) : link \in DOMAIN backup.symlinks}]

\* mount: `empty` tells whether the mount point is an empty directory, `clash`
\* whether an entry exists already where a backed-up symlink is to be made.
MountOf(document, name, empty, clash) ==
    LET view == GetBackup(document.db, name)
        e == MountEntries(view.backup)
    IN  CASE ~empty -> [ok |-> FALSE, err |-> "is not empty", made |-> {}]
          [] ~document.readable -> [ok |-> FALSE, err |-> "reading db file", made |-> {}]
          [] ~view.some -> [ok |-> FALSE, err |-> "does not exist", made |-> {}]
          [] clash /\ e.links # {} ->
                [ok |-> FALSE, err |-> "symlinking", made |-> e.dirs \cup e.files]
          [] OTHER -> [ok |-> TRUE, err |-> "", made |-> e.dirs \cup e.files \cup e.links]

\* The mount command, which the revision of src/cmd has, run while no other
\* command runs.
MountCall ==
    /\ rev = "vault"
    /\ \A p \in Procs : pc[p] = "idle"
    /\ \E name \in Names, empty \in BOOLEAN, clash \in BOOLEAN :
        LET o == MountOf(dbDisk, name, empty, clash)
        IN  last' = [op |-> "mount", name |-> name, ok |-> o.ok, made |-> o.made,
                     symlinks |-> GetBackup(dbDisk.db, name).backup.symlinks]
    /\ seen' = NoWalk
    /\ UNCHANGED <<callFrame, dbDisk, store>>

----------------------------------------------------------------------------
(* src/fieldmap.rs: FieldMap2, a collection of records indexed by two of their
   fields. The records live in an arena (a SlotMap); each index maps pointers
   to the key fields of the records in the arena to the records' slots. *)

\* The values a field may have, and the records an arena may come to hold.
MaxKey == 3
MaxOwners == 3
\* The slots that the allocator may give an arena beyond the one it needs.
MaxSpare == 1

FieldValues == 1..MaxKey
\* The struct S(i32, i32, i32) of the test: the first two fields are the keys.
Owners == [a : FieldValues, b : FieldValues, c : 0..1]
\* Option::None of a lookup.
NoOwner == [a |-> 0, b |-> 0, c |-> 0]

\* The getters S::a and S::b.
FieldOf(which, owner) == IF which = 1 THEN owner.a ELSE owner.b

\* InnerFieldMap::new
NewInner == [valid |-> FALSE, map |-> {}]

\* FieldMap2::new. `accepted` is not of the program: the records whose insert
\* returned Ok.
NewFieldMap ==
    [data |-> << >>, cap |-> 0, map1 |-> NewInner, map2 |-> NewInner, accepted |-> {}]

\* The UnsafePtrKey of an entry of an index points into a buffer the arena
\* has left.
Dangling(e) == e.dangling

\* The arena reallocates: every pointer into it is left dangling.
Moved(m) == [m EXCEPT !.map = {[e EXCEPT !.dangling = TRUE] : e \in @}]

\* InnerFieldMap::insert: HashMap::insert of the pointer to the field of the
\* record in `slot`; a key that compares equal gives its place to the new one.
InnerInsert(f, which, m, slot) ==
    [m EXCEPT !.map =
        {e \in @ : Dangling(e)
                   \/ FieldOf(which, f.data[e.slot]) # FieldOf(which, f.data[slot])}
        \cup {[slot |-> slot, dangling |-> FALSE]}]

\* InnerFieldMap::rebuild: the index is cleared and every record of the arena
\* inserted, in the order of the slots.
RECURSIVE RebuildFrom(_, _, _, _)
RebuildFrom(f, which, m, slot) ==
    IF slot > Len(f.data) THEN m
    ELSE RebuildFrom(f, which, InnerInsert(f, which, m, slot), slot + 1)

\* A fault of Rebuild: the index is not cleared before the records are inserted.
RebuildWithoutClear(f, which) ==
    RebuildFrom(f, which, [(IF which = 1 THEN f.map1 ELSE f.map2) EXCEPT !.valid = TRUE], 1)

Rebuild(f, which) == RebuildFrom(f, which, [valid |-> TRUE, map |-> {}], 1)

\* InnerFieldMap::get: the index is rebuilt if it is not valid, then the key is
\* looked up, which hashes and compares through the pointers of the index. A
\* pointer into a buffer that was freed may read anything: any slot or none
\* may be the answer. The result is the index and the slot found (0: none).
InnerGet(f, which, m, k) ==
    LET m1 == IF m.valid THEN m ELSE Rebuild(f, which)
        hits == {e \in m1.map : ~Dangling(e) /\ FieldOf(which, f.data[e.slot]) = k}
    IN  IF \E e \in m1.map : Dangling(e)
        THEN {[m |-> m1, found |-> slot] : slot \in 0..Len(f.data)}
        ELSE IF hits = {} THEN {[m |-> m1, found |-> 0]}
        ELSE {[m |-> m1, found |-> e.slot] : e \in hits}

\* FieldMap2::get_k1 and FieldMap2::get_k2
GetK1(f, k) ==
    {[fm |-> [f EXCEPT !.map1 = o.m],
      owner |-> IF o.found = 0 THEN NoOwner ELSE f.data[o.found]] :
        o \in InnerGet(f, 1, f.map1, k)}

GetK2(f, k) ==
    {[fm |-> [f EXCEPT !.map2 = o.m],
      owner |-> IF o.found = 0 THEN NoOwner ELSE f.data[o.found]] :
        o \in InnerGet(f, 2, f.map2, k)}

\* A fault of Overlap: the second key is not looked at.
OverlapOfFirstKey(overlap_1, overlap_2) == overlap_1

\* FieldMap2::insert, line 99: overlap_1.or(overlap_2)
Overlap(overlap_1, overlap_2) == IF overlap_1 # 0 THEN overlap_1 ELSE overlap_2

\* A fault of Invalidate: the indices are kept when the arena reallocates.
InvalidateNever(f) == FALSE

\* FieldMap2::insert, line 110: the arena is full and will reallocate.
Invalidate(f) == f.cap = Len(f.data)

\* FieldMap2::insert. The arena reallocates when it is full, whatever the
\* indices are told; its new capacity is the allocator's choice.
FieldMapInsert(f, owner) ==
    UNION {
        LET g == [f EXCEPT !.map1 = c1.m, !.map2 = c2.m]
            key == Len(f.data) + 1
            full == f.cap = Len(f.data)
        IN  IF Overlap(c1.found, c2.found) # 0
            THEN {[ok |-> FALSE, fm |-> g, existing |-> f.data[Overlap(c1.found, c2.found)]]}
            ELSE {LET h == [g EXCEPT !.data = Append(@, owner),
                                     !.cap = cap,
                                     !.map1 = IF full THEN Moved(@) ELSE @,
                                     !.map2 = IF full THEN Moved(@) ELSE @,
                                     !.accepted = @ \cup {owner}]
                  IN  [ok |-> TRUE, existing |-> NoOwner,
                       fm |-> IF Invalidate(f)
                              THEN [h EXCEPT !.map1.valid = FALSE, !.map2.valid = FALSE]
                              ELSE [h EXCEPT !.map1 = InnerInsert(h, 1, @, key),
                                             !.map2 = InnerInsert(h, 2, @, key)]] :
                    cap \in IF full THEN key..(key + MaxSpare) ELSE {f.cap}}
        : c1 \in InnerGet(f, 1, f.map1, owner.a),
          c2 \in InnerGet(f, 2, f.map2, owner.b)}

\* What a call on the FieldMap2 leaves alone.
fieldMapFrame ==
    <<lockFile, held, pc, cmd, res, blocked, watch, event, rev, dbDisk, store, bk, err,
      started, taken>>

\* A call of FieldMap2::insert(owner).
FieldMapInsertCall ==
    /\ \E owner \in Owners :
        \E o \in FieldMapInsert(fm, owner) :
            /\ ~o.ok \/ Len(fm.data) < MaxOwners
            /\ fm' = o.fm
            /\ last' = [op |-> "insert", owner |-> owner, ok |-> o.ok]
    /\ seen' = NoWalk
    /\ UNCHANGED fieldMapFrame

\* A fault of Breaks: the loop goes on after an insert that failed.
BreaksNever(o) == FALSE

\* FieldMap2::insert_multi, lines 76-79: the loop is left at the first Err.
Breaks(o) == ~o.ok

\* FieldMap2::insert_multi: insert for each record of `iter` from the i-th on,
\* until one returns Err; the result carries the record that was refused and
\* its place in the input (0: none).
RECURSIVE InsertMulti(_, _, _)
InsertMulti(f, iter, i) ==
    IF i > Len(iter) THEN {[ok |-> TRUE, fm |-> f, new |-> NoOwner, at |-> 0]}
    ELSE UNION {IF Breaks(o)
                THEN {[ok |-> FALSE, fm |-> o.fm, new |-> iter[i], at |-> i]}
                ELSE InsertMulti(o.fm, iter, i + 1) :
                    o \in FieldMapInsert(f, iter[i])}

\* The inputs of insert_multi: up to `room` records, which differ in their keys.
Iters(room) == UNION {[1..n -> {o \in Owners : o.c = 0}] : n \in 0..room}

\* A call of FieldMap2::insert_multi(iter), while the arena has fewer than
\* MaxOwners records.
InsertMultiCall ==
    /\ \E iter \in Iters(MaxOwners - Len(fm.data)) :
        /\ Len(fm.data) < MaxOwners
        /\ \E o \in InsertMulti(fm, iter, 1) :
            /\ fm' = o.fm
            /\ last' = [op |-> "insert_multi", iter |-> iter, before |-> fm.data,
                        ok |-> o.ok, new |-> o.new, at |-> o.at]
    /\ seen' = NoWalk
    /\ UNCHANGED fieldMapFrame
\* A call of FieldMap2::get_k1(k1); no record has the key 0.
GetK1Call ==
    /\ \E k \in 0..MaxKey :
        \E o \in GetK1(fm, k) :
            /\ fm' = o.fm
            /\ last' = [op |-> "get_k1", key |-> k, owner |-> o.owner]
    /\ seen' = NoWalk
    /\ UNCHANGED fieldMapFrame

\* A call of FieldMap2::get_k2(k2).
GetK2Call ==
    /\ \E k \in 0..MaxKey :
        \E o \in GetK2(fm, k) :
            /\ fm' = o.fm
            /\ last' = [op |-> "get_k2", key |-> k, owner |-> o.owner]
    /\ seen' = NoWalk
    /\ UNCHANGED fieldMapFrame

----------------------------------------------------------------------------
(* Properties *)

Terminated(p) == pc[p] \in {"done", "failed"}
InBackupSpan(p) == pc[p] \in {"bk_walk", "bk_ingest", "bk_commit"}
NewFileHashes(p) == {bk[p].bb.new_files[i].hash : i \in 1..Len(bk[p].bb.new_files)}

\* The file entries of a tree, by place in the walk.
FilePlaces(tree) == {i \in 1..Len(PathSeq) : tree[PathSeq[i]].kind = "file"}
\* The entry of the tree from which a walk of it made the record of inode `ino`:
\* the last of that inode in the walk.
RecordedFrom(tree, ino) ==
    LET at == {i \in FilePlaces(tree) : tree[PathSeq[i]].ino = ino}
    IN  tree[PathSeq[CHOOSE i \in at : \A j \in at : j <= i]]
\* The inodes of the files of a tree.
InosOf(tree) == {tree[PathSeq[i]].ino : i \in FilePlaces(tree)}
\* Process p's walk ends well in this step, and the snapshot of its name in the
\* database it loaded is the one committed by the last backup of that name.
WalkedAgain(p) ==
    /\ pc[p] = "bk_walk" /\ pc'[p] = "bk_ingest"
    /\ taken[bk[p].name].done
    /\ bk[p].name \in DOMAIN bk[p].db.backups
\* The new file of inode `ino` is queued by the builder.
Queued(bb, ino) == \E i \in 1..Len(bb.new_files) : bb.new_files[i].ino = ino
\* The last step was a call of insert_backup_builder.
Committed == last.op = "insert_backup_builder"
\* The size known for a hash of the table: the one recorded, where sizes are
\* recorded, and that of the bytes of the hash where they are not.
KnownSize(r, blocks, hash) ==
    IF r = "vault" THEN blocks[hash].size ELSE SizeOf(SourceBytes(hash))
\* Some new file of the queue has a hash that is known, from the table or from
\* a new file before it in the queue, with another size.
SizeConflict(r, blocks, new_files) ==
    \E i \in 1..Len(new_files) :
        \/ /\ new_files[i].hash \in DOMAIN blocks
           /\ KnownSize(r, blocks, new_files[i].hash) # new_files[i].size
        \/ \E j \in 1..(i - 1) :
            /\ new_files[j].hash = new_files[i].hash
            /\ new_files[j].size # new_files[i].size
\* The records of the arena of a FieldMap2.
Stored(f) == {f.data[i] : i \in 1..Len(f.data)}
\* What get_k1 and get_k2 may return for a key.
Found1(f, k) == {o.owner : o \in GetK1(f, k)}
Found2(f, k) == {o.owner : o \in GetK2(f, k)}
\* The stored records that have a key of the owner.
Sharing(f, owner) == {r \in Stored(f) : r.a = owner.a \/ r.b = owner.b}
\* Process p's ingestion loop is at a queued file in this step.
IngestsFile(p) == pc[p] = "bk_ingest" /\ bk[p].next <= Len(bk[p].bb.new_files)
\* The queued file the loop of process p is at.
FileAtHand(p) == bk[p].bb.new_files[bk[p].next]

\* C1: under any interleaving of nonblocking_lock, blocking_lock and unlock by
\* the holder, at most one process has returned success from a lock call
\* without having unlocked since, and the lock file exists while one has.
C1_MutualExclusion ==
    /\ Cardinality(held) <= 1
    /\ held # {} => lockFile

\* A process holds the lock while another, refused, waits for its release.
C1_Witness ==
    \E p, q \in Procs : p # q /\ held = {p} /\ blocked[q] /\ pc[q] = "bl_read"

\* C2: every process that has left a command which opened the vault has
\* released the lock it acquired, whether the command succeeded or failed.
C2_ReleaseOnEveryExit ==
    \A p \in Procs : (cmd[p] = "list" /\ Terminated(p)) => p \notin held

\* C3: a backup command is between loading and persisting the database only
\* while its process holds the directory lock, and no two are at once.
C3_BackupUnderLock ==
    /\ \A p \in Procs : InBackupSpan(p) => p \in held
    /\ \A p, q \in Procs : (InBackupSpan(p) /\ InBackupSpan(q)) => p = q

\* C4: a blocking_lock call that has seen the lock held returns success only
\* by a step taken while no process holds the lock and the lock file is gone.
C4_WaiterAcquiresAfterRelease ==
    [][\A p \in Procs :
          (blocked[p] /\ p \notin held /\ p \in held') => (held = {} /\ ~lockFile)]_vars

\* A waiter that was refused has acquired the lock.
C4_Witness ==
    \E p \in Procs : blocked[p] /\ res[p] = "Ok" /\ held = {p}

\* C5: a blocking_lock call that has seen the lock held never returns the
\* error of the lock file having gone before it was watched.
C5_MissedNotificationIsNoError ==
    \A p \in Procs : blocked[p] => res[p] # "ENOENT"

\* C6: a process that blocked in Vault::open does not fail for the lock file
\* having gone, and does not wait for a lock file that only processes which
\* have finished hold, and which nobody will delete.
C6_BlockedOpenProceeds ==
    \A p \in Procs :
        (cmd[p] = "list" /\ blocked[p]) =>
            /\ ~(pc[p] = "failed" /\ res[p] = "ENOENT")
            /\ ~(/\ pc[p] = "bl_read"
                 /\ ~event[p]
                 /\ held # {}
                 /\ \A q \in held : Terminated(q))

\* C7: a direct nonblocking_lock call on an existing lock file reports
\* AlreadyLocked and changes nothing; on no lock file (as after the holder's
\* unlock) it succeeds and the caller holds the lock; a creation error other
\* than "already exists" is returned as that error and changes nothing.
C7_NonblockingLockResult ==
    last.op = "nonblocking_lock" =>
        LET p == last.proc
        IN  /\ (~last.fault /\ last.existed) =>
                (res[p] = "AlreadyLocked" /\ lockFile /\ held = last.held)
            /\ (~last.fault /\ ~last.existed) =>
                (res[p] = "Ok" /\ lockFile /\ held = last.held \cup {p})
            /\ last.fault =>
                (res[p] \in IoErrors /\ lockFile = last.existed /\ held = last.held)

\* A process is refused the lock another process holds.
C7_Witness ==
    /\ last.op = "nonblocking_lock"
    /\ last.existed /\ ~last.fault
    /\ res[last.proc] = "AlreadyLocked"
    /\ held # {} /\ last.proc \notin held

\* C8: every hash a file record of a snapshot of the database on disk refers
\* to has a data block in the database and a file in the content store.
C8_ReferentialIntegrity ==
    dbDisk.readable =>
        \A n \in DOMAIN dbDisk.db.backups :
            \A i \in DOMAIN dbDisk.db.backups[n].files :
                LET h == dbDisk.db.backups[n].files[i].hash
                IN  h \in DOMAIN dbDisk.db.data_blocks /\ store[h] # "none"

\* A snapshot with files is on disk after a copy of another backup operation
\* has failed part-way.
C8_Witness ==
    /\ dbDisk.readable
    /\ \E n \in DOMAIN dbDisk.db.backups : DOMAIN dbDisk.db.backups[n].files # {}
    /\ \E h \in Hashes : store[h] = "partial"

\* C9: a step in which an ingestion fails ends the command and leaves the
\* document on disk, and the database in memory, as loaded; the document
\* changes only by the commit of a command all of whose queued files are in
\* the content store.
C9_IngestAtomicity ==
    [][/\ \A p \in Procs :
            (pc[p] = "bk_ingest" /\ pc'[p] = "failed") =>
                (dbDisk' = dbDisk /\ bk[p].db = dbDisk.db)
       /\ dbDisk' # dbDisk =>
            \E p \in Procs :
                /\ pc[p] = "bk_commit"
                /\ bk[p].next = Len(bk[p].bb.new_files) + 1
                /\ \A h \in NewFileHashes(p) : store[h] # "none"]_vars

\* An ingestion has failed after an earlier file of the same backup was stored.
C9_Witness ==
    \E p \in Procs :
        /\ pc[p] = "failed" /\ err[p] = "copy"
        /\ \E h \in Hashes : store[h] \in Contents
        /\ dbDisk = OnDisk(EmptyDatabase)

\* C10: a walk that comes to a special file ends the command with that error,
\* in a step that changes neither the database on disk nor the content store.
C10_SpecialFileRejected ==
    [][seen'.special =>
          /\ pc'[seen'.proc] = "failed"
          /\ err'[seen'.proc] = "special file"
          /\ dbDisk' = dbDisk
          /\ store' = store]_vars

\* A walk was stopped by a special file after two regular files.
C10_Witness ==
    /\ seen.special /\ seen.files = 2
    /\ pc[seen.proc] = "failed"

\* C11: a call of insert_file that follows a successful call for the same
\* source and hash returns success, makes no directory, copies no bytes and
\* leaves the content store, with its one file for the hash, as it was.
C11_DedupIdempotence ==
    [][(/\ last.op = "insert_file" /\ last.ok
        /\ last'.op = "insert_file" /\ last'.hash = last.hash)
       => (/\ last'.ok /\ ~last'.mkdir /\ ~last'.copied
           /\ store' = store
           /\ store[last.hash] # "none")]_vars

\* The second of two calls for the same hash has returned, the first having
\* copied the bytes.
C11_Witness ==
    /\ last.op = "insert_file" /\ last.existed /\ last.ok /\ ~last.copied
    /\ store[last.hash] = SourceBytes(last.hash)

\* C12: a file at a hash-derived path of the content store holds the complete
\* content of that hash; a copy that fails leaves no file there.
C12_OnlyCompleteContentStored ==
    \A h \in Hashes : store[h] # "none" => store[h] = SourceBytes(h)

\* C13: when the snapshot of the same name has a record of the scanned file's
\* inode and the file's mtime is not later than the mtime that record was made
\* at, the walk does not read the file, does not queue it, and records the
\* hash of the prior record.
C13_MetadataShortCircuit ==
    [][\A p \in Procs : WalkedAgain(p) =>
         LET prior == taken[bk[p].name].tree
             snapshot == bk[p].db.backups[bk[p].name]
             tree == bk'[p].tree
         IN  \A i \in FilePlaces(tree) :
                LET e == tree[PathSeq[i]]
                IN  (/\ e.ino \in InosOf(prior)
                     /\ e.mtime <= RecordedFrom(prior, e.ino).mtime)
                    => (/\ PathSeq[i] \notin bk'[p].hashed
                        /\ ~Queued(bk'[p].bb, e.ino)
                        /\ bk'[p].bb.inner.files[e.ino].hash = snapshot.files[e.ino].hash)]_vars

\* C14: when the snapshot of the same name has a record of the scanned file's
\* inode and the file's mtime is later than the mtime that record was made at,
\* the walk reads the file; it queues it iff its hash is not the prior record's,
\* and records the prior hash when the hashes are equal.
C14_HashCompare ==
    [][\A p \in Procs : WalkedAgain(p) =>
         LET prior == taken[bk[p].name].tree
             snapshot == bk[p].db.backups[bk[p].name]
             tree == bk'[p].tree
         IN  \A i \in FilePlaces(tree) :
                LET e == tree[PathSeq[i]]
                IN  (/\ e.ino \in InosOf(prior)
                     /\ e.mtime > RecordedFrom(prior, e.ino).mtime)
                    => (/\ PathSeq[i] \in bk'[p].hashed
                        /\ Queued(bk'[p].bb, e.ino)
                                <=> Blake3(e.content) # snapshot.files[e.ino].hash
                        /\ bk'[p].bb.inner.files[e.ino].hash = Blake3(e.content))]_vars

\* C15: a scanned regular file whose inode has no record in the snapshot of the
\* same name, or when there is no such snapshot, is read and hashed whatever its
\* mtime, and is recorded and queued for ingestion with that hash.
C15_NewInodeHashed ==
    [][\A p \in Procs : (pc[p] = "bk_walk" /\ pc'[p] = "bk_ingest") =>
         LET old == GetBackup(bk[p].db, bk[p].name)
             tree == bk'[p].tree
             bb == bk'[p].bb
         IN  \A i \in FilePlaces(tree) :
                LET e == tree[PathSeq[i]]
                IN  (~old.some \/ e.ino \notin DOMAIN old.backup.files)
                    => (/\ PathSeq[i] \in bk'[p].hashed
                        /\ e.ino \in DOMAIN bb.inner.files
                        /\ \E k \in 1..Len(bb.new_files) :
                              /\ bb.new_files[k].source = PathSeq[i]
                              /\ bb.new_files[k].ino = e.ino
                              /\ bb.new_files[k].hash = Blake3(e.content))]_vars

\* A walk has queued a file of an inode that the snapshot of the same name,
\* which has a younger file of another inode, has no record of.
C15_Witness ==
    \E p \in Procs :
        /\ pc[p] = "bk_ingest"
        /\ bk[p].name \in DOMAIN bk[p].db.backups
        /\ LET snapshot == bk[p].db.backups[bk[p].name]
               prior == taken[bk[p].name].tree
           IN  \E k \in 1..Len(bk[p].bb.new_files) :
                  LET f == bk[p].bb.new_files[k]
                  IN  /\ f.ino \notin DOMAIN snapshot.files
                      /\ DOMAIN snapshot.files # {}
                      /\ f.source \in bk[p].hashed
                      /\ \A j \in FilePlaces(prior) : f.mtime < prior[PathSeq[j]].mtime

\* C16: a walk of the tree that the last backup of the same name walked, with
\* no mtime and no content changed, reads no file, queues nothing, and builds
\* the snapshot of that last backup.
C16_RerunUnchanged ==
    [][\A p \in Procs :
         (WalkedAgain(p) /\ bk'[p].tree = taken[bk[p].name].tree)
         => (/\ bk'[p].hashed = {}
             /\ bk'[p].bb.new_files = << >>
             /\ bk'[p].bb.inner = bk[p].db.backups[bk[p].name])]_vars

\* C17: in a backup, the ingestion of a file whose content is in the content
\* store already, because another file (another inode) of the same tree has
\* the same bytes, or because an earlier backup stored it and the database
\* knows its hash, does not fail, and leaves the one stored file as it is.
C17_DuplicateContent ==
    [][\A p \in Procs :
        (/\ IngestsFile(p)
         /\ store[FileAtHand(p).hash] = SourceBytes(FileAtHand(p).hash)
         /\ \/ \E j \in 1..(bk[p].next - 1) :
                    /\ bk[p].bb.new_files[j].hash = FileAtHand(p).hash
                    /\ bk[p].bb.new_files[j].ino # FileAtHand(p).ino
            \/ FileAtHand(p).hash \in DOMAIN bk[p].db.data_blocks)
         => (/\ pc'[p] # "failed"
             /\ store' = store)]_vars

\* C18: a call of insert_backup_builder that returns, for a name the database
\* has a snapshot of, leaves the builder's snapshot under that name and every
\* snapshot of another name as it was; no name is added and none removed.
C18_CommitReplacesNamed ==
    (Committed /\ last.ok /\ last.name \in DOMAIN last.db.backups)
        => (/\ DOMAIN last.out.backups = DOMAIN last.db.backups
            /\ last.out.backups[last.name] = last.bb.inner
            /\ \A other \in DOMAIN last.db.backups \ {last.name} :
                    last.out.backups[other] = last.db.backups[other])

\* A builder has been committed under a name that had another snapshot, in a
\* database that has a snapshot of another name too.
C18_Witness ==
    /\ Committed /\ last.ok
    /\ DOMAIN last.db.backups = Names
    /\ last.bb.inner # last.db.backups[last.name]
    /\ last.bb.new_files # << >>
    /\ last.out.backups[last.name] = last.bb.inner

\* C19: a call of insert_backup_builder fails if and only if a new file of the
\* builder has a hash that is known with another size; whether it fails or
\* not, the metadata of every hash the table knew is as it was; and when it
\* fails the snapshots are as they were.
C19_CommitFailsOnSizeConflict ==
    Committed
        => (/\ last.ok <=> ~SizeConflict(rev, last.db.data_blocks, last.bb.new_files)
            /\ \A h \in DOMAIN last.db.data_blocks :
                    /\ h \in DOMAIN last.out.data_blocks
                    /\ last.out.data_blocks[h] = last.db.data_blocks[h]
            /\ ~last.ok => last.out.backups = last.db.backups)

\* C20: in a backup of a tree in which two paths are the same inode, the
\* ingestion of the second path's file, which the first path's has stored,
\* does not fail; and the snapshot committed has one record for each inode
\* of the tree's files.
C20_HardLinks ==
    [][\A p \in Procs :
        /\ (/\ IngestsFile(p)
            /\ store[FileAtHand(p).hash] = SourceBytes(FileAtHand(p).hash)
            /\ \E j \in 1..(bk[p].next - 1) :
                    /\ bk[p].bb.new_files[j].ino = FileAtHand(p).ino
                    /\ bk[p].bb.new_files[j].hash = FileAtHand(p).hash
                    /\ bk[p].bb.new_files[j].source # FileAtHand(p).source)
            => (/\ pc'[p] # "failed"
                /\ store' = store)
        /\ (pc[p] = "bk_commit" /\ pc'[p] = "done")
            => DOMAIN dbDisk'.db.backups[bk[p].name].files = InosOf(bk[p].tree)]_vars

\* C21: an insert of a record that has the first key or the second key of
\* another stored record returns an error and leaves the same records stored
\* and every lookup by either key as it was; an insert of a record that has
\* no key of a stored record succeeds, whatever its third field.
C21_KeyUniqueness ==
    [][last'.op = "insert" =>
        /\ (Sharing(fm, last'.owner) \ {last'.owner} # {})
            => (/\ ~last'.ok
                /\ fm'.data = fm.data
                /\ \A k \in 0..MaxKey :
                        /\ Found1(fm', k) = Found1(fm, k)
                        /\ Found2(fm', k) = Found2(fm, k))
        /\ Sharing(fm, last'.owner) = {}
            => (last'.ok /\ fm'.data = Append(fm.data, last'.owner))]_vars

\* An insert has failed for a record that has only the second key of a stored
\* record, and another has succeeded that has the third field of a stored one.
C21_Witness ==
    /\ last.op = "insert" /\ ~last.ok
    /\ \E r \in Stored(fm) : r.b = last.owner.b /\ r.a # last.owner.a
    /\ \E i, j \in 1..Len(fm.data) : i # j /\ fm.data[i].c = fm.data[j].c

\* C22: whatever inserts and lookups were made, get_k1 and get_k2 return each
\* record whose insert succeeded for its keys, and none for a key that no
\* such record has; and so did the lookup just made.
C22_Reachability ==
    /\ \A r \in fm.accepted : Found1(fm, r.a) = {r} /\ Found2(fm, r.b) = {r}
    /\ \A k \in 0..MaxKey :
        /\ (\A r \in fm.accepted : r.a # k) => Found1(fm, k) = {NoOwner}
        /\ (\A r \in fm.accepted : r.b # k) => Found2(fm, k) = {NoOwner}
    /\ last.op = "get_k1" =>
        \/ last.owner \in fm.accepted /\ last.owner.a = last.key
        \/ last.owner = NoOwner /\ \A r \in fm.accepted : r.a # last.key
    /\ last.op = "get_k2" =>
        \/ last.owner \in fm.accepted /\ last.owner.b = last.key
        \/ last.owner = NoOwner /\ \A r \in fm.accepted : r.b # last.key

\* The first record inserted has been looked up in an arena that has grown
\* since, and holds as many records as it may.
C22_Witness ==
    /\ last.op = "get_k2" /\ Len(fm.data) = MaxOwners
    /\ last.owner = fm.data[1]
    /\ fm.map1.valid /\ fm.map2.valid

\* C23: an insert of a record that is stored already succeeds, and one record
\* with its keys is stored afterwards.
C23_DuplicateInsert ==
    [][(last'.op = "insert" /\ last'.owner \in Stored(fm))
        => (/\ last'.ok
            /\ Cardinality({i \in 1..Len(fm'.data) :
                    fm'.data[i].a = last'.owner.a /\ fm'.data[i].b = last'.owner.b}) = 1)]_vars

\* C24: whatever way a Database::write ends, the process being killed part-way
\* included, the document on disk is afterwards the complete document of
\* before or the complete new one.
C24_CrashSafeSave ==
    [][\A p \in Procs :
        (pc[p] = "bk_commit" /\ pc'[p] # "bk_commit")
            => dbDisk' \in {dbDisk, NewDocument(p)}]_vars

\* C25: the first backup of a vault as init leaves it, of the source tree
\* {a/file1, a/dir/, a/link -> file1} walked from the directory that holds
\* `a`, commits a snapshot with the one file a/file1 under the hash of its
\* bytes, the directories a and a/dir, the one symlink a/link -> file1, and
\* leaves one file in the content store, at that hash.
C25_Scenario ==
    [][\A p \in Procs :
        (pc[p] = "bk_commit" /\ pc'[p] = "done" /\ started = 1)
            => LET snapshot == dbDisk'.db.backups[bk[p].name]
               IN  /\ DOMAIN dbDisk'.db.backups = {bk[p].name}
                   /\ snapshot.files = Put(EmptyMap, 1, FileRecord(rev, "a/file1", Blake3("x"), 1))
                   /\ snapshot.directories = {"a", "a/dir"}
                   /\ snapshot.symlinks = Put(EmptyMap, "a/link", "file1")
                   /\ store' = [h \in Hashes |-> IF h = Blake3("x") THEN "x" ELSE "none"]]_vars

\* The first backup of the scenario's tree has been committed.
C25_Witness ==
    /\ pc[1] = "done" /\ started = 1
    /\ dbDisk.readable /\ DOMAIN dbDisk.db.backups = {"s1"}
    /\ "a/link" \in DOMAIN dbDisk.db.backups["s1"].symlinks
    /\ store[Blake3("x")] = "x"

\* C25 as stated: the snapshot of that backup has exactly one directory, a/dir.
C25_OneDirectory ==
    [][\A p \in Procs :
        (pc[p] = "bk_commit" /\ pc'[p] = "done" /\ started = 1)
            => dbDisk'.db.backups[bk[p].name].directories = {"a/dir"}]_vars

----------------------------------------------------------------------------

\* The errors of a backup that come from the file system failing under it.
IoFaults == {"loading database", "dir_entry", "mkdir", "copy", "writing database", "killed"}

\* C26: init, given an accessible empty directory and meeting no I/O error,
\* returns Ok and leaves the data subtree and a document holding the empty
\* database (which loads, with zero snapshots) and nothing else; given a
\* directory that is not empty or cannot be listed it returns an error and
\* leaves the directory as it was. The first backup on the vault that init
\* leaves, of a tree with no special file, fails only if the file system does.
C26_Init ==
    [][/\ last'.op = "init" =>
            LET c == last'
            IN  /\ (c.before.access /\ IsEmpty(c.before) /\ c.fault = "none")
                    => /\ c.ok
                       /\ c.after = [c.before EXCEPT !.data = TRUE,
                                                     !.document = {OnDisk(EmptyDatabase)}]
                       /\ \A doc \in c.after.document :
                            doc.readable /\ DOMAIN doc.db.backups = {}
                /\ (~c.before.access \/ ~IsEmpty(c.before))
                    => ~c.ok /\ c.after = c.before
       /\ \A p \in Procs :
            (/\ cmd'[p] = "backup" /\ started' = 1
             /\ pc[p] # "failed" /\ pc'[p] = "failed"
             /\ err'[p] # "special file")
                => err'[p] \in IoFaults]_vars

\* C27: a database reached by committing builders, written with
\* Database::write and loaded with Database::load, comes back with every
\* snapshot under its name, with the same files, directories and symlinks, and
\* with the same entries in the data-block table.
C27_RoundTrip ==
    last.op = "write_load"
        => /\ last.wrote /\ last.loaded
           /\ DOMAIN last.out.backups = DOMAIN last.db.backups
           /\ \A name \in DOMAIN last.db.backups :
                last.out.backups[name] = last.db.backups[name]
           /\ last.out.data_blocks = last.db.data_blocks

\* C28: a mount that returns Ok has made, for every symlink of the snapshot, a
\* symlink at the link's path below the mount point whose target is the
\* recorded target, has made nothing at the path the target names, and has
\* left the database document and the content store as they were.
C28_MountSymlinks ==
    [][(last'.op = "mount" /\ last'.ok)
        => /\ \A link \in DOMAIN last'.symlinks :
                /\ Symlink(At("recorded", last'.symlinks[link]), At("mount_point", link))
                        \in last'.made
                /\ \A e \in last'.made : e.at # At("cwd", last'.symlinks[link])
           /\ dbDisk' = dbDisk /\ store' = store]_vars

\* C29: when the unlock at the end of a command that holds the vault fails, so
\* that the lock file is still there, the command reports failure.
C29_UnlockErrorSurfaced ==
    [][\A p \in Procs :
        (pc[p] = "opened" /\ pc'[p] # "opened" /\ lockFile')
            => pc'[p] = "failed"]_vars

\* C30: get_file returns not-found exactly when the snapshot has no record of
\* the inode; when it has a record whose hash has no entry in the data-block
\* table, the call panics, and returns neither a file view nor not-found.
C30_GetFile ==
    last.op = "get_file"
        => LET files == last.view.backup.files
           IN  /\ last.found = "none" <=> last.ino \notin DOMAIN files
               /\ (/\ last.ino \in DOMAIN files
                   /\ files[last.ino].hash \notin DOMAIN last.view.data_blocks)
                    => last.found = "panic"
               /\ (/\ last.ino \in DOMAIN files
                   /\ files[last.ino].hash \in DOMAIN last.view.data_blocks)
                    => last.found = "some"

\* get_file was called for an inode whose record's hash has no data block,
\* in a snapshot that has another record whose hash has one.
C30_Witness ==
    /\ last.op = "get_file" /\ last.found = "panic"
    /\ \E i \in DOMAIN last.view.backup.files :
            last.view.backup.files[i].hash \in DOMAIN last.view.data_blocks

\* Two records that may not both be stored: they share a key.
Overlaps(x, y) == x.a = y.a \/ x.b = y.b

\* The place in `iter` of the first record that shares a key with a stored
\* record or with a record before it in `iter`; 0 if there is none.
FirstRefused(before, iter) ==
    LET refused == {i \in 1..Len(iter) :
                        \/ \E k \in 1..Len(before) : Overlaps(before[k], iter[i])
                        \/ \E j \in 1..(i - 1) : Overlaps(iter[j], iter[i])}
    IN  IF refused = {} THEN 0 ELSE CHOOSE i \in refused : \A j \in refused : i <= j

\* C31: insert_multi does what insert, called on each record of the input in
\* order until one fails, does: it returns Ok iff no record is refused;
\* otherwise the error carries the first record that shares a key with a
\* stored or an earlier one, the records before it are in the arena (after
\* the ones that were there) and are found by both their keys, and no record
\* after it is in the arena.
C31_InsertMulti ==
    last.op = "insert_multi"
        => LET r == FirstRefused(last.before, last.iter)
               n == IF r = 0 THEN Len(last.iter) ELSE r - 1
           IN  /\ last.ok <=> r = 0
               /\ last.at = r
               /\ ~last.ok => last.new = last.iter[r]
               /\ fm.data = last.before \o SubSeq(last.iter, 1, n)
               /\ \A j \in 1..n :
                    /\ \A o \in GetK1(fm, last.iter[j].a) : o.owner = last.iter[j]
                    /\ \A o \in GetK2(fm, last.iter[j].b) : o.owner = last.iter[j]

\* insert_multi has refused the third record of its input, after it has put
\* the first two into an empty arena.
C31_Witness ==
    /\ last.op = "insert_multi" /\ ~last.ok /\ last.at = 3
    /\ last.before = << >> /\ Len(fm.data) = 2

\* The entries of an index that is the projection of the arena: one for each
\* slot, pointing to the record where it now is.
Projection(f) == {[slot |-> i, dangling |-> FALSE] : i \in 1..Len(f.data)}

\* C32: between calls, an index of the FieldMap2 that is marked valid holds
\* exactly one entry for each record of the arena, pointing to the record's
\* present place, so that no lookup reads through a pointer from before a
\* reallocation; and an insert that makes a full arena grow leaves both indices
\* marked invalid.
C32_IndexValidity ==
    [][/\ fm'.map1.valid => fm'.map1.map = Projection(fm')
       /\ fm'.map2.valid => fm'.map2.map = Projection(fm')
       /\ (Len(fm'.data) > Len(fm.data) /\ fm.cap = Len(fm.data))
            => ~fm'.map1.valid /\ ~fm'.map2.valid]_vars

\* After an insert that made the arena grow, get_k1 has rebuilt the first
\* index, and the second is still marked invalid.
C32_Witness ==
    /\ last.op = "get_k1" /\ Len(fm.data) >= 2
    /\ fm.map1.valid /\ ~fm.map2.valid
    /\ fm.map1.map = Projection(fm)
    /\ \E e \in fm.map2.map : Dangling(e)

\* C33: every snapshot that a backup has committed with success is in the
\* database document afterwards, with the data block of each of its files,
\* whatever other backups ran at the same time under other names.
C33_NoLostSnapshot ==
    \A name \in Names :
        (taken[name].done /\ dbDisk.readable)
            => /\ name \in DOMAIN dbDisk.db.backups
               /\ \A ino \in DOMAIN dbDisk.db.backups[name].files :
                    dbDisk.db.backups[name].files[ino].hash
                        \in DOMAIN dbDisk.db.data_blocks

\* C34: when a backup commits a file that its walk read and found unchanged
\* (the file's mtime later than the prior record's, the bytes the same), the
\* mtime that the next backup of the name compares the file with is the file's
\* mtime at this backup, and a walk of the file as it is does not read it.
C34_UnchangedMTimeKept ==
    [][\A p \in Procs :
        (pc[p] = "bk_commit" /\ pc'[p] = "done" /\ taken[bk[p].name].done) =>
            LET prior == taken[bk[p].name].tree
                tree == bk[p].tree
                next == GetBackup(dbDisk'.db, bk[p].name)
            IN  \A i \in FilePlaces(tree) :
                    LET e == tree[PathSeq[i]]
                    IN  (/\ e.ino \in InosOf(prior)
                         /\ e.mtime > RecordedFrom(prior, e.ino).mtime
                         /\ e.content = RecordedFrom(prior, e.ino).content
                         /\ PathSeq[i] \in bk[p].hashed
                         /\ ~Queued(bk[p].bb, e.ino))
                        => (/\ GetFile(rev, next, e.ino).mtime = e.mtime
                            /\ ~BackupSingleDirEntry(rev, NewBuilder, next,
                                                     PathSeq[i], e).hashed)]_vars

C36_HolderRemoves ==
    [][(lockFile /\ ~lockFile') =>
         \E p \in held :
            /\ res[p] = "Ok"
            /\ pc[p] = "opened" /\ pc'[p] = "done"
            /\ held' = held \ {p}
            /\ \A q \in Procs \ {p} : pc'[q] = pc[q]]_vars
\* A Vault has been dropped and the lock file removed while another process
\* was waiting for the lock, which has taken it since.
C36_Witness ==
    /\ \E p \in Procs : pc[p] = "done" /\ cmd[p] = "list" /\ p \notin held
    /\ \E q \in held : cmd[q] = "list" /\ blocked[q] /\ pc[q] = "opened"
    /\ lockFile

\* C37: a file of the content store, once it is there, is left as it is by
\* every step of a backup and by every call of insert_file; and a step that
\* copies the bytes of one hash leaves the place of every other hash as it is.
C37_StoredContentImmutable ==
    [][/\ \A h \in Hashes : store[h] # "none" => store'[h] = store[h]
       /\ Cardinality({h \in Hashes : store'[h] # store[h]}) <= 1
       /\ \A p \in Procs : (pc[p] = "bk_copy" /\ pc'[p] # "bk_copy") =>
            \A h \in Hashes \ {bk[p].bb.new_files[bk[p].next].hash} : store'[h] = store[h]
       /\ last'.op = "insert_file" =>
            \A h \in Hashes \ {last'.hash} : store'[h] = store[h]]_vars

\* C38: for any two MTime values, cmp does not panic, it returns Equal exactly
\* when the values are equal under ==, and otherwise it orders them by their
\* seconds and then by their nanoseconds.
C38_MTimeOrder ==
    last.op = "cmp" =>
        /\ last.ordering # "panic"
        /\ (last.ordering = "Equal") <=> last.eq
        /\ (last.ordering = "Less")
                <=> (\/ last.a.sec < last.b.sec
                     \/ last.a.sec = last.b.sec /\ last.a.nano < last.b.nano)

----------------------------------------------------------------------------

LockInit ==
    /\ lockFile = FALSE
    /\ held = {}
    /\ pc = [p \in Procs |-> "idle"]
    /\ cmd = [p \in Procs |-> "none"]
    /\ res = [p \in Procs |-> "none"]
    /\ blocked = [p \in Procs |-> FALSE]
    /\ watch = [p \in Procs |-> FALSE]
    /\ event = [p \in Procs |-> FALSE]
    /\ last = NoCall
    /\ seen = NoWalk

\* The vault as `init` leaves it: an empty database document, an empty store.
VaultInit ==
    /\ dbDisk \in InitOf(rev, EmptyDir, "none").dir.document
    /\ store = [h \in Hashes |-> "none"]
    /\ bk = [p \in Procs |-> NoBackup]
    /\ err = [p \in Procs |-> ""]
    /\ started = 0
    /\ taken = [n \in Names |-> NotTaken]
    /\ fm = NewFieldMap

Init ==
    /\ rev \in Revs
    /\ LockInit
    /\ VaultInit

LockNext ==
    \E p \in Procs :
        \/ NonblockingLock(p)
        \/ BlockingLockCall(p)
        \/ BlTry(p)
        \/ BlWatch(p)
        \/ BlBufSize(p)
        \/ BlRead(p)
        \/ Unlock(p)

Next ==
    \/ \E p \in Procs :
        \/ VaultOpen(p)
        \/ BlTry(p)
        \/ BlWatch(p)
        \/ BlBufSize(p)
        \/ BlRead(p)
        \/ OpenDirLoad(p)
        \/ VaultDrop(p)
        \/ BackupLoad(p)
        \/ BackupWalk(p, SmallTrees)
        \/ BackupIngest(p)
        \/ BackupCommit(p)
        \/ Exit(p)

\* One backup command at a time, on any source tree.
SeqNext ==
    \E p \in {1} :
        /\ \A q \in Procs \ {p} : pc[q] = "idle"
        /\ \/ BackupLoad(p)
           \/ BackupWalk(p, Trees)
           \/ BackupIngest(p)
           \/ BackupCommit(p)
           \/ Exit(p)

\* Processes using DirectoryLock directly, in any interleaving.
SpecLock == Init /\ [][LockNext]_vars

\* Processes running commands on one vault: list (through Vault) and backup.
Spec == Init /\ [][Next]_vars

\* Backup commands run one after the other.
SpecSeq == Init /\ [][SeqNext]_vars

\* Both: commands that overlap, and commands on any source tree while no
\* other command runs.
SpecAny == Init /\ [][Next \/ SeqNext]_vars

\* The functions called directly, on any input.
UnitNext ==
    \/ InsertFileCall
    \/ InsertBackupBuilderCall

SpecUnit == Init /\ [][UnitNext]_vars

\* One source tree backed up again and again, one command at a time.
RerunNext ==
    \E p \in {1} :
        /\ \A q \in Procs \ {p} : pc[q] = "idle"
        /\ \/ BackupLoadWithin(p, MaxReruns)
           \/ BackupWalk(p, RerunTrees)
           \/ BackupIngest(p)
           \/ BackupCommit(p)
           \/ Exit(p)

SpecRerun == Init /\ [][RerunNext]_vars

\* Backups of the scenario's tree, one command at a time.
ScenarioNext ==
    \E p \in {1} :
        /\ \A q \in Procs \ {p} : pc[q] = "idle"
        /\ \/ BackupLoad(p)
           \/ BackupWalkOf(p, ScenarioWalks)
           \/ BackupIngest(p)
           \/ BackupCommit(p)
           \/ Exit(p)

SpecScenario == Init /\ [][ScenarioNext]_vars

\* `init` on any directory, then backup commands on the vault, one at a time.
InitNext ==
    \/ InitCall
    \/ SeqNext

SpecInit == Init /\ [][InitNext]_vars
\* Databases written and loaded.
SpecRoundTrip == Init /\ [][WriteLoadCall]_vars
\* Backups of the scenario's tree, and mounts of the snapshots.
MountNext ==
    \/ ScenarioNext
    \/ MountCall

SpecMount == Init /\ [][MountNext]_vars
\* Lookups in views of any snapshot.
SpecView == Init /\ [][GetFileCall]_vars
\* Backup commands that overlap, each access of the ingestion loop to the
\* vault directory a step of its own.
IngestNext ==
    \E p \in Procs :
        \/ BackupLoad(p)
        \/ BackupWalk(p, SmallTrees)
        \/ BackupIngestStat(p)
        \/ BackupIngestCopy(p)
        \/ BackupCommit(p)
        \/ Exit(p)

SpecIngest == Init /\ [][IngestNext]_vars

\* Comparisons of MTime values.
SpecMTime == Init /\ [][MTimeCmpCall]_vars

\* Calls on one FieldMap2, in any order.
FieldMapNext ==
    \/ FieldMapInsertCall
    \/ GetK1Call
    \/ GetK2Call

SpecFieldMap == Init /\ [][FieldMapNext]_vars

\* Calls of insert_multi on one FieldMap2, one after the other.
SpecInsertMulti == Init /\ [][InsertMultiCall]_vars
====
